---- MODULE Spec2Model ----
(***************************************************************************)
(* State-machine model of services/enhanced_queue_manager.py:              *)
(* RateLimiter, DeadLetterQueue and EnhancedQueueManager over one Redis    *)
(* database, called by several concurrent callers (admission clients and   *)
(* workers).  Every awaited Redis command (a pipeline's EXEC counts as     *)
(* one) is one atomic step of the server; a step of a caller is one        *)
(* command together with the code the coroutine runs after it up to its    *)
(* next await, so callers interleave between any two commands.  The clock  *)
(* advances between any two commands in SpecDelay, SpecRate and SpecSweep; *)
(* the other specifications advance it while no call is between two        *)
(* commands, which bounds the exploration.                                 *)
(***************************************************************************)
EXTENDS Integers, Sequences, FiniteSets, TLC

(***************************************************************************)
(* Bounds of the exploration.                                              *)
(***************************************************************************)
NumProcs == 2
MaxJobs == 2
MaxTime == 2
MaxCompletions == 1
MaxJobsDelay == 2
MaxTimeDelay == 2
MaxJobsSeq == 2
MaxTimeSeq == 4
MaxFailReportsSeq == 4
MaxQueueSize == 2
MaxJobsRate == 11
StartTimeRate == 59
MaxTimeRate == 60
MaxOverflowsRate == 1
MaxDelayedRate == 2
MaxJobsWork == 4
MaxTimeWork == 1
MaxDelayedWork == 2
MaxEntriesDLQ == 2
MaxJobsDLQ == 1
ClockStepDLQ == 345600
MaxTimeDLQ == 691200
MaxJobsBg == 1
MaxCompletionsBg == 1
ClockStepBg == 86399
MaxTimeBg == 172800
MaxInitializeBg == 2
MaxInitializeSweep == 1
MaxTimeCache == 3
MaxJobsHand == 1
MaxJobsShared == 11
MaxTimeShared == 1
TotalMemory == 80

Procs == 1..NumProcs
JobIds == 1..(IF MaxJobs > MaxJobsSeq THEN MaxJobs ELSE MaxJobsSeq)
Users == {"u1", "u2"}
\* Caller p admits jobs on behalf of user UserOf(p).
UserOf(p) == IF p = 1 THEN "u1" ELSE "u2"
InputPriorities == {"URGENT", "NORMAL"}
WorkPriorities == {"URGENT", "HIGH", "NORMAL"}
JobTypes == {"render"}
Payloads == {"p1"}
Delays == {0, 1}
Timeouts == {1}
ModelIds == {"A", "B", "C"}
Errors == {"boom"}

(***************************************************************************)
(* Program constants.                                                      *)
(***************************************************************************)
requests_per_minute == 10
requests_per_hour == 100
requests_per_day == 500
concurrent_jobs == 3
default_max_retries == 3
default_timeout_seconds == 300
JOB_TTL == 86400
MINUTE_TTL == 60
HOUR_TTL == 3600
DAY_TTL == 86400
DLQ_CAP == 1000
default_max_queue_size == 1000
max_age_days == 7
default_max_models == 2
default_limit == 100
BACKOFF_CAP == 300
BACKOFF_BASE == 10

(***************************************************************************)
(* QueuePriority and JobStatus enums.  A member is named by its name; its  *)
(* value is what the constructor QueuePriority(value) / JobStatus(value)   *)
(* looks up.                                                               *)
(***************************************************************************)
QueuePriority == <<"LOW", "NORMAL", "HIGH", "URGENT">>
QueuePriorityNames == {"LOW", "NORMAL", "HIGH", "URGENT"}
QueuePriorityValue(p) ==
    CASE p = "LOW" -> 0 [] p = "NORMAL" -> 1 [] p = "HIGH" -> 2 [] p = "URGENT" -> 3

JobStatus == {"PENDING", "QUEUED", "PROCESSING", "COMPLETED", "FAILED", "CANCELLED", "EXPIRED"}
JobStatusValue(s) ==
    CASE s = "PENDING" -> "pending" [] s = "QUEUED" -> "queued"
      [] s = "PROCESSING" -> "processing" [] s = "COMPLETED" -> "completed"
      [] s = "FAILED" -> "failed" [] s = "CANCELLED" -> "cancelled"
      [] s = "EXPIRED" -> "expired"

\* The order in which dequeue_job tries the active lists.
DequeueOrder == <<"URGENT", "HIGH", "NORMAL", "LOW">>

None == -1
NoneStr == "<None>"
\* The number 0 and the empty string, where a datetime or None is expected:
\* the false values that _get_job_data leaves in a date field as they are.
RawZero == -2
RawEmpty == -3

(***************************************************************************)
(* JSON values as written by json.dumps(..., default=str) and read by      *)
(* json.loads.  kind "int": a JSON number n; kind "str": a JSON string s;  *)
(* kind "datestr": the JSON string str(datetime) of the instant n; kind    *)
(* "null": JSON null.                                                      *)
(***************************************************************************)
JStr(s) == [kind |-> "str", n |-> 0, s |-> s]
JDate(t) == [kind |-> "datestr", n |-> t, s |-> ""]
JNull == [kind |-> "null", n |-> 0, s |-> ""]
JInt(n) == [kind |-> "int", n |-> n, s |-> ""]

\* str(member) of a plain Enum is "ClassName.MEMBER".
StrQueuePriority(p) ==
    CASE p = "LOW" -> "QueuePriority.LOW" [] p = "NORMAL" -> "QueuePriority.NORMAL"
      [] p = "HIGH" -> "QueuePriority.HIGH" [] p = "URGENT" -> "QueuePriority.URGENT"
StrJobStatus(s) ==
    CASE s = "PENDING" -> "JobStatus.PENDING" [] s = "QUEUED" -> "JobStatus.QUEUED"
      [] s = "PROCESSING" -> "JobStatus.PROCESSING" [] s = "COMPLETED" -> "JobStatus.COMPLETED"
      [] s = "FAILED" -> "JobStatus.FAILED" [] s = "CANCELLED" -> "JobStatus.CANCELLED"
      [] s = "EXPIRED" -> "JobStatus.EXPIRED"

\* json.dumps falls back to default=str for the values it cannot encode:
\* enum members and datetimes.
json_default_priority(p) == JStr(StrQueuePriority(p))
json_default_status(s) == JStr(StrJobStatus(s))
json_default_datetime(t) ==
    CASE t = None -> JNull
      [] t = RawZero -> JInt(0)
      [] t = RawEmpty -> JStr("")
      [] OTHER -> JDate(t)
json_optional_str(s) == IF s = NoneStr THEN JNull ELSE JStr(s)

\* json.dumps(asdict(job), default=str)
json_dumps_job(job) ==
    [job_id |-> job.job_id, user_id |-> job.user_id, job_type |-> job.job_type,
     payload |-> job.payload,
     priority |-> json_default_priority(job.priority),
     status |-> json_default_status(job.status),
     created_at |-> json_default_datetime(job.created_at),
     scheduled_at |-> json_default_datetime(job.scheduled_at),
     started_at |-> json_default_datetime(job.started_at),
     completed_at |-> json_default_datetime(job.completed_at),
     retry_count |-> job.retry_count, max_retries |-> job.max_retries,
     timeout_seconds |-> job.timeout_seconds,
     error_message |-> json_optional_str(job.error_message)]

\* datetime.fromisoformat(v) succeeds exactly on the text of a datetime.
fromisoformat_ok(v) == v.kind = "datestr"
\* datetime.fromisoformat(v) of a value that is no string raises TypeError
\* (a string that is no datetime text raises ValueError).
fromisoformat_TypeError(v) == v.kind \in {"null", "int"}
\* bool(v) of a value json.loads returns: None, the number 0 and the empty
\* string are false, every other value is true.
truthy(v) ==
    CASE v.kind = "null" -> FALSE
      [] v.kind = "int" -> v.n # 0
      [] v.kind = "str" -> v.s # ""
      [] OTHER -> TRUE
\* "if data[k]: data[k] = datetime.fromisoformat(data[k])": a false value is
\* left alone, a true one has to be the text of a datetime.
optional_date_ok(v) == ~truthy(v) \/ fromisoformat_ok(v)
optional_date(v) ==
    CASE v.kind = "datestr" -> v.n
      [] v.kind = "int" -> RawZero
      [] v.kind = "str" -> RawEmpty
      [] OTHER -> None

\* QueuePriority(v): lookup by value, the values are the integers 0..3.
QueuePriority_ok(v) ==
    v.kind = "int" /\ \E m \in QueuePriorityNames : QueuePriorityValue(m) = v.n
QueuePriority_of(v) == CHOOSE m \in QueuePriorityNames : QueuePriorityValue(m) = v.n
\* JobStatus(v): lookup by value, the values are the lower-case strings.
JobStatus_ok(v) == v.kind = "str" /\ \E m \in JobStatus : JobStatusValue(m) = v.s
JobStatus_of(v) == CHOOSE m \in JobStatus : JobStatusValue(m) = v.s

\* The try block of _get_job_data: ValueError / TypeError make it return None.
parse_ok(data) ==
    /\ fromisoformat_ok(data.created_at)
    /\ optional_date_ok(data.scheduled_at)
    /\ optional_date_ok(data.started_at)
    /\ optional_date_ok(data.completed_at)
    /\ QueuePriority_ok(data.priority)
    /\ JobStatus_ok(data.status)

parse_job(data) ==
    [job_id |-> data.job_id, user_id |-> data.user_id, job_type |-> data.job_type,
     payload |-> data.payload,
     priority |-> QueuePriority_of(data.priority),
     status |-> JobStatus_of(data.status),
     created_at |-> data.created_at.n,
     scheduled_at |-> optional_date(data.scheduled_at),
     started_at |-> optional_date(data.started_at),
     completed_at |-> optional_date(data.completed_at),
     retry_count |-> data.retry_count, max_retries |-> data.max_retries,
     timeout_seconds |-> data.timeout_seconds,
     error_message |-> IF data.error_message.kind = "null" THEN NoneStr
                       ELSE data.error_message.s]

(***************************************************************************)
(* State.                                                                  *)
(***************************************************************************)
(***************************************************************************)
(* State.                                                                  *)
(***************************************************************************)
VARIABLES
    max_queue_size, \* EnhancedQueueManager.max_queue_size, set by the constructor
    uuid_text,    \* the place of every job id in the order of the uuid4 texts
    decode_responses, \* the Redis client answers with str (TRUE) or with bytes
    now,          \* the wall clock, in seconds
    next_uuid,    \* the next fresh job id handed out by uuid4
    store,        \* Redis hashes job:{id} -> [data, user_id, status, expires]
    queue,        \* Redis lists queue:{priority}, head first
    delayed,      \* Redis sorted sets queue:{priority}:delayed, {[id, score]}
    counters,     \* Redis rate-limit counters, key -> [n, expires]
    dlq,          \* Redis list dead_letter_queue, head first
    user_jobs,    \* Redis sets user:{u}:jobs
    results,      \* Redis keys job:{id}:result, id -> the instant the key expires
    stats,        \* EnhancedQueueManager.stats
    pc,           \* position of every caller
    loc,          \* local variables of every caller
    last,         \* history: the call that returned last, with its return value
    unit_of,      \* history: the originally admitted job a job was re-enqueued for
    handed,       \* history: the job ids dequeue_job took from the lists, in order
    tasks,        \* EnhancedQueueManager._cleanup_task and _monitor_task, and shutdown()
    cuda,         \* torch.cuda: is_available(), memory_allocated(), memory_reserved()
    monitor,      \* GPUMemoryMonitor: peak_memory and lock
    model_cache   \* EnhancedModelCache: cache, usage_times, memory_sizes and lock

\* The state of the asset-generation pipeline and of the background tasks.
pipeline_vars == <<tasks, cuda, monitor, model_cache>>
\* The settings of the constructor and the uuid4 texts drawn so far.
config_vars == <<max_queue_size, uuid_text, decode_responses>>
\* The Redis database and the manager's own fields.
redis_vars == <<config_vars, now, next_uuid, store, queue, delayed, counters, dlq, user_jobs,
                results, stats, unit_of, handed>>

vars == <<max_queue_size, uuid_text, decode_responses, now, next_uuid, store, queue, delayed,
          counters, dlq, user_jobs, results, stats, pc, loc, last, unit_of, handed, tasks,
          cuda, monitor, model_cache>>

(***************************************************************************)
(* Redis helpers.  A key with no TTL has expires = None.                   *)
(***************************************************************************)
\* LPUSH puts the element at the head of the list.
lpush(list, id) == <<id>> \o list
\* BRPOP takes the element at the tail of the list.
rpop_value(list) == list[Len(list)]
rpop_rest(list) == SubSeq(list, 1, Len(list) - 1)
\* ZADD of a member: one score per member.
zadd(zset, id, score) == {e \in zset : e.id # id} \cup {[id |-> id, score |-> score]}
zrem(zset, id) == {e \in zset : e.id # id}
\* A key is there until its TTL, when it has one, runs out.
alive(expires, t) == expires = None \/ t < expires
\* HGET job:{id} data finds the hash.
hexists(st, id, t) == id \in DOMAIN st /\ alive(st[id].expires, t)
\* EXPIRE job:{id} ttl: nothing happens when the key is not there.
expire(st, id, t, ttl) ==
    IF hexists(st, id, t) THEN [st EXCEPT ![id].expires = t + ttl] ELSE st
\* GET of a counter key: None when the key is absent or expired.
counter_get(cnt, key, t) ==
    IF key \in DOMAIN cnt /\ t < cnt[key].expires THEN cnt[key].n ELSE None
\* INCR then EXPIRE of a counter key, in one transaction.
counter_incr(cnt, key, t, ttl) ==
    [k \in DOMAIN cnt \cup {key} |->
        IF k = key
        THEN [n |-> (IF counter_get(cnt, key, t) = None THEN 0 ELSE cnt[key].n) + 1,
              expires |-> t + ttl]
        ELSE cnt[k]]
\* The set user:{u}:jobs is there while it has members and its TTL runs.
set_exists(uj, u, t) == uj[u].members # {} /\ alive(uj[u].expires, t)
\* SMEMBERS of user:{u}:jobs.
smembers(uj, u, t) == IF set_exists(uj, u, t) THEN uj[u].members ELSE {}
\* SET job:{id}:result value EX 86400
RESULT_TTL == 86400
set_result(res, id, t) ==
    [j \in DOMAIN res \cup {id} |-> IF j = id THEN t + RESULT_TTL ELSE res[j]]
result_exists(res, id, t) == id \in DOMAIN res /\ t < res[id]
\* DEL job:{id}:result
delete_result(res, id) == [j \in DOMAIN res \ {id} |-> res[j]]
\* DEL job:{id}
delete_job(st, id) == [j \in DOMAIN st \ {id} |-> st[j]]

SeqToSet(s) == {s[i] : i \in 1..Len(s)}
ActiveIds == UNION {SeqToSet(queue[pr]) : pr \in QueuePriorityNames}
DelayedIds == UNION {{e.id : e \in delayed[pr]} : pr \in QueuePriorityNames}

(***************************************************************************)
(* RateLimiter: the keys and the conditions.                               *)
(***************************************************************************)
minute_key(u, t) == <<"minute", u, t \div 60>>
hour_key(u, t) == <<"hour", u, t \div 3600>>
day_key(u, t) == <<"day", u, t \div 86400>>

\* The keys of the database that exist at instant t and that a pattern with
\* the prefix "job:" can match: job:{id} hashes and job:{id}:result strings.
redis_keys(st, res, t) ==
    {[shape |-> "job:{id}", id |-> j, user |-> ""] : j \in {i \in DOMAIN st : hexists(st, i, t)}}
      \cup {[shape |-> "job:{id}:result", id |-> j, user |-> ""] :
               j \in {i \in DOMAIN res : result_exists(res, i, t)}}
\* KEYS job:*:user:{u}:status:processing.  No key of that shape is ever
\* written.
keys_processing(st, res, u, t) ==
    {k \in redis_keys(st, res, t) :
        k.shape = "job:{id}:user:{u}:status:processing" /\ k.user = u}

\* limit_hit with the limit itself still allowed.
limit_hit_above(count, limit) == count # None /\ count > limit

\* "if count and int(count) >= limit"
limit_hit(count, limit) == count # None /\ count >= limit

\* The pipeline of increment_rate_limit: the keys are those of the instant
\* `snap` the coroutine read, the TTLs start when the server runs the EXEC.
incr_pipeline(cnt, u, snap, t) ==
    counter_incr(counter_incr(counter_incr(cnt, minute_key(u, snap), t, MINUTE_TTL),
                              hour_key(u, snap), t, HOUR_TTL),
                 day_key(u, snap), t, DAY_TTL)

(***************************************************************************)
(* EnhancedQueueManager: pieces shared by the operations                   *)
(***************************************************************************)
\* self.queue_keys, in the order of the dict.
queue_keys == <<"URGENT", "HIGH", "NORMAL", "LOW">>

\* The QueueJob built by enqueue_job.
NewQueueJob(id, u, ty, pl, pr, d, t) ==
    [job_id |-> id, user_id |-> u, job_type |-> ty, payload |-> pl,
     priority |-> pr, status |-> "QUEUED", created_at |-> t,
     scheduled_at |-> IF d > 0 THEN t + d ELSE None,
     started_at |-> None, completed_at |-> None,
     retry_count |-> 0, max_retries |-> default_max_retries,
     timeout_seconds |-> default_timeout_seconds, error_message |-> NoneStr]

\* hset(job_key, {data, user_id, status}): a new hash has no TTL.
hset_new_job(st, job, t) ==
    [j \in DOMAIN st \cup {job.job_id} |->
        IF j = job.job_id
        THEN [data |-> json_dumps_job(job), user_id |-> job.user_id,
              status |-> JobStatusValue(job.status),
              expires |-> IF hexists(st, j, t) THEN st[j].expires ELSE None]
        ELSE st[j]]

\* hset(job_key, {data, status}) of _update_job_status: the two fields are
\* set in the hash; when the key has gone since it was read, a new hash with
\* these two fields and no TTL is made.
hset_status(st, id, job, t) ==
    IF hexists(st, id, t)
    THEN [st EXCEPT ![id].data = json_dumps_job(job), ![id].status = JobStatusValue(job.status)]
    ELSE [j \in DOMAIN st \cup {id} |->
             IF j = id
             THEN [data |-> json_dumps_job(job), user_id |-> NoneStr,
                   status |-> JobStatusValue(job.status), expires |-> None]
             ELSE st[j]]

\* sadd(user:{u}:jobs, id): a new set has no TTL.
sadd_user_job(uj, u, id, t) ==
    [uj EXCEPT ![u] = [members |-> smembers(uj, u, t) \cup {id},
                       expires |-> IF set_exists(uj, u, t) THEN uj[u].expires ELSE None]]
\* expire(user:{u}:jobs, 86400)
expire_user_jobs(uj, u, t) ==
    IF set_exists(uj, u, t) THEN [uj EXCEPT ![u].expires = t + JOB_TTL] ELSE uj
\* srem(user:{u}:jobs, id): the key goes with its last member.
srem_user_job(uj, u, id, t) ==
    IF smembers(uj, u, t) \ {id} = {}
    THEN [uj EXCEPT ![u] = [members |-> {}, expires |-> 0]]
    ELSE [uj EXCEPT ![u].members = smembers(uj, u, t) \ {id}]

\* _get_job_data: <<>> is None, <<job>> a QueueJob.
_get_job_data(st, id, t) ==
    IF hexists(st, id, t) /\ parse_ok(st[id].data) THEN <<parse_job(st[id].data)>> ELSE <<>>

\* f"job:{job_id}" of an id that BRPOP answered: with a client that answers
\* in bytes the key is "job:b'...'", which nobody writes.
_get_job_data_of_popped(st, id, t, decoded) ==
    IF decoded THEN _get_job_data(st, id, t) ELSE <<>>

\* The QueueJob _update_job_status writes back.
updated_job(job, status, error, t) ==
    [job EXCEPT !.status = status,
                !.started_at = IF status = "PROCESSING" THEN t ELSE @,
                !.completed_at = IF status \in {"COMPLETED", "FAILED", "CANCELLED"} THEN t ELSE @,
                !.error_message = IF error # NoneStr /\ error # "" THEN error ELSE @]

TerminalStatuses == {"COMPLETED", "FAILED", "CANCELLED"}

(***************************************************************************)
(* Callers.  loc[p] holds the arguments and locals of the call in flight.  *)
(***************************************************************************)
\* History: no picture of the database was taken when the call began.
NoDB ==
    [now |-> 0, next_uuid |-> 0, store |-> <<>>, queue |-> <<>>, delayed |-> <<>>,
     counters |-> <<>>, dlq |-> <<>>, user_jobs |-> <<>>, results |-> <<>>, stats |-> <<>>]

IdleLoc ==
    [op |-> "none", user_id |-> "", job_type |-> "", payload |-> "",
     priority |-> "LOW", delay |-> 0, timeout |-> 0, idx |-> 0,
     ready |-> <<>>, snap |-> 0, wait |-> 0, only_due |-> None, job_id |-> None,
     active_first |-> None, valid_entries |-> <<>>,
     model_id |-> "", to_evict |-> <<>>, before |-> <<>>, pressure |-> FALSE,
     in_loop |-> FALSE,
     total |-> 0, created |-> 0, score |-> 0, popped |-> <<>>, job |-> <<>>,
     arg_job |-> None, error |-> "", retry |-> FALSE, streak |-> 0, branch |-> "",
     upd_id |-> None, upd_status |-> "", upd_error |-> NoneStr, upd_job |-> <<>>,
     failed_at |-> 0, cutoff |-> 0, db |-> NoDB]

\* The history of taken jobs is off.
NotRecorded == <<None>>

\* No key is being looked at by the sweep.
NoKey == [shape |-> "", id |-> 0, user |-> ""]

\* The tasks asyncio.create_task has made, in the order of their making, and
\* the manager's two fields, which name a task by its place or are None.
\* must_cancel: Task.cancel() was called and the CancelledError is not yet
\* thrown into the coroutine.  pending: the keys SCAN answered that the loop
\* has not come to yet; key: the key the loop is at.  logged: the loop's
\* "except Exception" has written an error to the log.  shutdown: where a
\* shutdown() call is, and awaited: the task it awaits.
NewTask(coro) ==
    [coro |-> coro, pc |-> "created", must_cancel |-> FALSE, wake_at |-> 0, cutoff |-> 0,
     pending |-> {}, key |-> NoKey, valid_entries |-> <<>>, idx |-> 0, logged |-> FALSE]

\* EnhancedQueueManager.__init__: both fields are None.
NoTasks ==
    [all |-> <<>>, _cleanup_task |-> None, _monitor_task |-> None,
     shutdown |-> "none", awaited |-> None]

\* torch.cuda on a machine without an accelerator.
NoCuda == [is_available |-> FALSE, memory_allocated |-> 0, memory_reserved |-> 0,
           total_memory |-> 0]

\* GPUMemoryMonitor.__init__
NewMonitor == [peak_memory |-> 0, lock |-> None]

\* EnhancedModelCache.__init__: the three dicts, each with its keys in
\* insertion order and its values.
NewModelCache(max_models) ==
    [cache |-> <<>>, usage_times |-> <<>>, memory_sizes |-> <<>>,
     max_models |-> max_models, lock |-> None]

\* No call has returned yet.
NoCall ==
    [op |-> "none", arg_job |-> None, arg_retry |-> FALSE, streak |-> 0,
     only_due |-> None, ok |-> FALSE, msg |-> "", job |-> None, status |-> "",
     started_at |-> None, active_first |-> None, value |-> None]

\* The history is off: returns are not noted.
Unobserved == [NoCall EXCEPT !.op = "unobserved"]

Observed == last # Unobserved

\* History: the database as the call in flight found it.
Snapshot ==
    IF Observed
    THEN [now |-> now, next_uuid |-> next_uuid, store |-> store, queue |-> queue,
          delayed |-> delayed, counters |-> counters, dlq |-> dlq, user_jobs |-> user_jobs,
          results |-> results, stats |-> stats]
    ELSE NoDB

\* Caller p returns: its locals are gone; the call and its value are noted
\* in the behaviours that keep the history.
Return(p, call) ==
    /\ loc' = [loc EXCEPT ![p] = IdleLoc]
    /\ last' = IF Observed THEN call ELSE last

\* str(uuid.uuid4()): the text of a fresh id falls at place k among the
\* texts drawn before it.  text gives every id the place of its text in their
\* order.
uuid4(text, id, k) ==
    [j \in DOMAIN text \cup {id} |->
        IF j = id THEN k ELSE IF text[j] >= k THEN text[j] + 1 ELSE text[j]]

\* The pipeline objects as constructed, on a machine without an accelerator,
\* and a manager whose initialize() has not been called.
InitPipeline ==
    /\ tasks = NoTasks
    /\ cuda = NoCuda
    /\ monitor = NewMonitor
    /\ model_cache = NewModelCache(default_max_models)

\* An empty Redis database and the fields of a freshly constructed manager.
InitManager ==
    /\ next_uuid = 1
    /\ store = <<>>
    /\ queue = [pr \in QueuePriorityNames |-> <<>>]
    /\ delayed = [pr \in QueuePriorityNames |-> {}]
    /\ counters = <<>>
    /\ user_jobs = [u \in Users |-> [members |-> {}, expires |-> 0]]
    /\ results = <<>>
    /\ stats = [jobs_queued |-> 0, jobs_processed |-> 0, jobs_failed |-> 0,
                queue_overflows |-> 0]
    /\ pc = [p \in Procs |-> "idle"]
    /\ loc = [p \in Procs |-> IdleLoc]
    /\ unit_of = <<>>
    /\ uuid_text = <<>>

\* The manager and the pipeline objects as constructed; no history of the jobs taken.
InitStores ==
    /\ handed = NotRecorded
    /\ InitPipeline
    /\ InitManager

\* A client built by redis.from_url(url), which answers in bytes.
BytesClient == decode_responses = FALSE

\* A client of either kind.
AnyClient == decode_responses \in BOOLEAN

InitRedis ==
    /\ max_queue_size \in 1..MaxQueueSize
    /\ now = 0
    /\ dlq = <<>>
    /\ InitStores

\* The clock advances.
Tick ==
    /\ now' = now + 1
    /\ UNCHANGED <<pipeline_vars, config_vars, handed,
                   next_uuid, store, queue, delayed, counters, dlq, user_jobs,
                   results, stats, pc, loc, last, unit_of>>

(***************************************************************************)
(* enqueue_job.  It is called by a client, and by fail_job for a retry.    *)
(***************************************************************************)
\* The callers that are in enqueue_job and have not drawn their job id yet.
InFlightAdmissions ==
    Cardinality({q \in Procs : pc[q] \in {"fail_hget", "rl", "rl_keys", "size"}})

\* enqueue_job returns (ok, msg, job): to the client, or to fail_job, which
\* goes on with _update_job_status(job_id, CANCELLED, "Retrying: ...") after
\* a success and with the final failure otherwise.
enqueue_job_return(p, ok, msg, job) ==
    IF loc[p].op = "enqueue_job"
    THEN /\ pc' = [pc EXCEPT ![p] = "idle"]
         /\ Return(p, [NoCall EXCEPT !.op = "enqueue_job", !.ok = ok, !.msg = msg,
                                     !.job = job])
    ELSE /\ pc' = [pc EXCEPT ![p] = "upd_hget"]
         /\ loc' = [loc EXCEPT ![p].upd_id = loc[p].arg_job,
                               ![p].upd_status = IF ok THEN "CANCELLED" ELSE "FAILED",
                               ![p].upd_error = IF ok THEN "Retrying: " \o loc[p].error
                                                ELSE loc[p].error,
                               ![p].branch = IF ok THEN "retry" ELSE "final"]
         /\ UNCHANGED last

\* "return False, reason, None" with the call counted against the limits.
rejected_and_counted(p, reason) ==
    /\ enqueue_job_return(p, FALSE, reason, None)
    /\ counters' = incr_pipeline(counters, loc[p].user_id, now, now)

\* "return False, reason, None"
rejected(p, reason) ==
    /\ enqueue_job_return(p, FALSE, reason, None)
    /\ UNCHANGED counters

\* The call, up to the first GET of check_rate_limit: "now = datetime.now()".
enqueue_job(p, u, ty, pl, pr, d) ==
    /\ pc[p] = "idle"
    /\ pc' = [pc EXCEPT ![p] = "rl"]
    /\ loc' = [loc EXCEPT ![p] =
                 [IdleLoc EXCEPT !.op = "enqueue_job", !.user_id = u, !.job_type = ty,
                                 !.payload = pl, !.priority = pr, !.delay = d,
                                 !.idx = 1, !.snap = now, !.db = Snapshot]]
    /\ UNCHANGED <<pipeline_vars, config_vars, handed,
                   now, next_uuid, store, queue, delayed, counters, dlq, user_jobs,
                   results, stats, last, unit_of>>

PerMinuteReason == "Rate limit exceeded: too many requests per minute"
PerHourReason == "Rate limit exceeded: too many requests per hour"
PerDayReason == "Rate limit exceeded: too many requests per day"
ConcurrentReason == "Rate limit exceeded: too many concurrent jobs"
QueueFullReason == "Queue is full, please try again later"

\* check_rate_limit: GET of the minute key, of the hour key, of the day key,
\* one after the other; the keys are those of the instant the call read.
check_rate_limit(p) ==
    /\ pc[p] = "rl"
    /\ LET l == loc[p]
           key == CASE l.idx = 1 -> minute_key(l.user_id, l.snap)
                    [] l.idx = 2 -> hour_key(l.user_id, l.snap)
                    [] OTHER -> day_key(l.user_id, l.snap)
           limit == CASE l.idx = 1 -> requests_per_minute
                      [] l.idx = 2 -> requests_per_hour
                      [] OTHER -> requests_per_day
           reason == CASE l.idx = 1 -> PerMinuteReason
                       [] l.idx = 2 -> PerHourReason
                       [] OTHER -> PerDayReason
       IN IF limit_hit(counter_get(counters, key, now), limit)
          THEN rejected(p, reason)
          ELSE /\ pc' = [pc EXCEPT ![p] = IF l.idx < 3 THEN "rl" ELSE "rl_keys"]
               /\ loc' = [loc EXCEPT ![p].idx = IF l.idx < 3 THEN l.idx + 1 ELSE 0]
               /\ UNCHANGED <<last, counters>>
    /\ UNCHANGED <<pipeline_vars, config_vars, handed,
                   now, next_uuid, store, queue, delayed, dlq, user_jobs,
                   results, stats, unit_of>>

\* get_concurrent_jobs: KEYS, and the check of check_rate_limit on its
\* answer; then the first LLEN of _get_total_queue_size is due.
get_concurrent_jobs(p) ==
    /\ pc[p] = "rl_keys"
    /\ IF Cardinality(keys_processing(store, results, loc[p].user_id, now)) >= concurrent_jobs
       THEN rejected(p, ConcurrentReason)
       ELSE /\ pc' = [pc EXCEPT ![p] = "size"]
            /\ loc' = [loc EXCEPT ![p].idx = 1, ![p].total = 0]
            /\ UNCHANGED <<last, counters>>
    /\ UNCHANGED <<pipeline_vars, config_vars, handed,
                   now, next_uuid, store, queue, delayed, dlq, user_jobs,
                   results, stats, unit_of>>

\* _get_total_queue_size: LLEN and ZCARD for one entry of queue_keys after
\* the other, eight commands.  After the last one enqueue_job compares the
\* sum with max_queue_size and, when there is room, draws the job id and
\* reads the clock for created_at.  The text of an id is compared with
\* others only in a delayed set, so its place among them is drawn for a job
\* that is admitted with a delay.
_get_total_queue_size(p) ==
    /\ pc[p] = "size"
    /\ LET l == loc[p]
           pr == queue_keys[(l.idx + 1) \div 2]
           total == l.total + (IF l.idx % 2 = 1 THEN Len(queue[pr])
                               ELSE Cardinality(delayed[pr]))
       IN IF l.idx < 2 * Len(queue_keys)
          THEN /\ loc' = [loc EXCEPT ![p].idx = l.idx + 1, ![p].total = total]
               /\ UNCHANGED <<pc, last, counters, stats, next_uuid, unit_of, uuid_text>>
          ELSE IF total >= max_queue_size
          THEN /\ stats' = [stats EXCEPT !.queue_overflows = @ + 1]
               /\ rejected(p, QueueFullReason)
               /\ UNCHANGED <<next_uuid, unit_of, uuid_text>>
          ELSE /\ next_uuid' = next_uuid + 1
               /\ IF l.delay > 0
                  THEN \E k \in 1..(Cardinality(DOMAIN uuid_text) + 1) :
                          uuid_text' = uuid4(uuid_text, next_uuid, k)
                  ELSE UNCHANGED uuid_text
               /\ unit_of' = [j \in DOMAIN unit_of \cup {next_uuid} |->
                                IF j # next_uuid THEN unit_of[j]
                                ELSE IF l.op = "fail_job" THEN unit_of[l.arg_job]
                                ELSE next_uuid]
               /\ pc' = [pc EXCEPT ![p] = "enq_hset"]
               /\ loc' = [loc EXCEPT ![p].idx = 0, ![p].total = total,
                                     ![p].job_id = next_uuid, ![p].created = now]
               /\ UNCHANGED <<last, counters, stats>>
    /\ UNCHANGED <<pipeline_vars, max_queue_size, decode_responses, handed,
                   now, store, queue, delayed, dlq, user_jobs, results>>

\* HSET job:{id}
enqueue_job_hset(p) ==
    /\ pc[p] = "enq_hset"
    /\ LET l == loc[p]
       IN store' = hset_new_job(store,
                       NewQueueJob(l.job_id, l.user_id, l.job_type, l.payload, l.priority,
                                   l.delay, l.created), now)
    /\ pc' = [pc EXCEPT ![p] = "enq_expire"]
    /\ UNCHANGED <<pipeline_vars, config_vars, handed,
                   now, next_uuid, queue, delayed, counters, dlq, user_jobs, results, stats,
                   loc, last, unit_of>>

\* EXPIRE job:{id} 86400; then "score = time.time() + delay_seconds" of a
\* delayed job.
enqueue_job_expire(p) ==
    /\ pc[p] = "enq_expire"
    /\ store' = expire(store, loc[p].job_id, now, JOB_TTL)
    /\ pc' = [pc EXCEPT ![p] = "enq_push"]
    /\ loc' = [loc EXCEPT ![p].score = IF loc[p].delay > 0 THEN now + loc[p].delay ELSE 0]
    /\ UNCHANGED <<pipeline_vars, config_vars, handed,
                   now, next_uuid, queue, delayed, counters, dlq, user_jobs, results, stats,
                   last, unit_of>>

\* "Add to appropriate queue": ZADD or LPUSH; then increment_rate_limit
\* reads the clock.
enqueue_job_push(p) ==
    /\ pc[p] = "enq_push"
    /\ LET l == loc[p]
       IN IF l.delay > 0
          THEN /\ delayed' = [delayed EXCEPT ![l.priority] = zadd(@, l.job_id, l.score)]
               /\ UNCHANGED queue
          ELSE /\ queue' = [queue EXCEPT ![l.priority] = lpush(@, l.job_id)]
               /\ UNCHANGED delayed
    /\ pc' = [pc EXCEPT ![p] = "enq_incr"]
    /\ loc' = [loc EXCEPT ![p].snap = now]
    /\ UNCHANGED <<pipeline_vars, config_vars, handed,
                   now, next_uuid, store, counters, dlq, user_jobs, results, stats,
                   last, unit_of>>

\* increment_rate_limit: the EXEC of the pipeline; then
\* "self.stats['jobs_queued'] += 1".
increment_rate_limit(p) ==
    /\ pc[p] = "enq_incr"
    /\ counters' = incr_pipeline(counters, loc[p].user_id, loc[p].snap, now)
    /\ stats' = [stats EXCEPT !.jobs_queued = @ + 1]
    /\ pc' = [pc EXCEPT ![p] = "enq_sadd"]
    /\ UNCHANGED <<pipeline_vars, config_vars, handed,
                   now, next_uuid, store, queue, delayed, dlq, user_jobs, results,
                   loc, last, unit_of>>

\* SADD user:{u}:jobs
enqueue_job_sadd(p) ==
    /\ pc[p] = "enq_sadd"
    /\ user_jobs' = sadd_user_job(user_jobs, loc[p].user_id, loc[p].job_id, now)
    /\ pc' = [pc EXCEPT ![p] = "enq_expire_user"]
    /\ UNCHANGED <<pipeline_vars, config_vars, handed,
                   now, next_uuid, store, queue, delayed, counters, dlq, results, stats,
                   loc, last, unit_of>>

\* EXPIRE user:{u}:jobs 86400; "return True, 'Job queued successfully', job_id"
enqueue_job_expire_user(p) ==
    /\ pc[p] = "enq_expire_user"
    /\ user_jobs' = expire_user_jobs(user_jobs, loc[p].user_id, now)
    /\ enqueue_job_return(p, TRUE, "Job queued successfully", loc[p].job_id)
    /\ UNCHANGED <<pipeline_vars, config_vars, handed,
                   now, next_uuid, store, queue, delayed, counters, dlq, results, stats,
                   unit_of>>

(***************************************************************************)
(* _update_job_status, called by dequeue_job, complete_job and fail_job.   *)
(***************************************************************************)
\* _update_job_status has returned to its caller, which runs on to its next
\* command or to its end.
after_update(p) ==
    CASE loc[p].op = "dequeue_job" ->
            /\ pc' = [pc EXCEPT ![p] = "idle"]
            /\ Return(p, [NoCall EXCEPT !.op = "dequeue_job",
                             !.only_due = loc[p].only_due,
                             !.active_first = loc[p].active_first,
                             !.ok = TRUE, !.job = loc[p].job[1].job_id,
                             !.status = loc[p].job[1].status,
                             !.started_at = loc[p].job[1].started_at])
            /\ UNCHANGED stats
      [] loc[p].op = "complete_job" ->
            /\ stats' = [stats EXCEPT !.jobs_processed = @ + 1]
            /\ pc' = [pc EXCEPT ![p] = "complete_set"]
            /\ UNCHANGED <<loc, last>>
      [] loc[p].op = "fail_job" /\ loc[p].branch = "retry" ->
            /\ pc' = [pc EXCEPT ![p] = "idle"]
            /\ Return(p, [NoCall EXCEPT !.op = "fail_job", !.arg_job = loc[p].arg_job,
                                        !.arg_retry = loc[p].retry, !.msg = loc[p].error,
                                        !.streak = loc[p].streak])
            /\ UNCHANGED stats
      [] loc[p].op = "fail_job" /\ loc[p].branch = "final" ->
            /\ pc' = [pc EXCEPT ![p] = "fail_lpush"]
            /\ loc' = [loc EXCEPT ![p].failed_at = now]
            /\ UNCHANGED <<stats, last>>

\* The commands of _update_job_status: HGET (in _get_job_data), then, when
\* the record was read, HSET and, for a terminal status, SREM.
_update_job_status(p) ==
    /\ pc[p] \in {"upd_hget", "upd_hset", "upd_srem"}
    /\ LET l == loc[p]
       IN CASE pc[p] = "upd_hget" ->
                 LET job_data == _get_job_data(store, l.upd_id, now)
                 IN IF job_data = <<>>
                    THEN after_update(p) /\ UNCHANGED <<store, user_jobs>>
                    ELSE /\ pc' = [pc EXCEPT ![p] = "upd_hset"]
                         /\ loc' = [loc EXCEPT ![p].upd_job =
                                       <<updated_job(job_data[1], l.upd_status, l.upd_error, now)>>]
                         /\ UNCHANGED <<store, user_jobs, stats, last>>
            [] pc[p] = "upd_hset" ->
                 /\ store' = hset_status(store, l.upd_id, l.upd_job[1], now)
                 /\ UNCHANGED user_jobs
                 /\ IF l.upd_status \in TerminalStatuses
                    THEN /\ pc' = [pc EXCEPT ![p] = "upd_srem"]
                         /\ UNCHANGED <<loc, stats, last>>
                    ELSE after_update(p)
            [] pc[p] = "upd_srem" ->
                 /\ user_jobs' = srem_user_job(user_jobs, l.upd_job[1].user_id, l.upd_id, now)
                 /\ UNCHANGED store
                 /\ after_update(p)
    /\ UNCHANGED <<pipeline_vars, config_vars, handed,
                   now, next_uuid, queue, delayed, counters, dlq, results, unit_of>>

(***************************************************************************)
(* dequeue_job: _process_delayed_jobs (one ZRANGEBYSCORE and one pipeline  *)
(* per priority), then one BRPOP per priority, each followed by the HGET   *)
(* of the record and by _update_job_status.                                *)
(***************************************************************************)
\* ready_jobs with the upper end of the score range lost.
ready_jobs_no_upper_bound(zset, t) == {e \in zset : 0 <= e.score}

\* zrangebyscore(delay_queue_key, 0, now)
ready_jobs(zset, t) == {e \in zset : 0 <= e.score /\ e.score <= t}

\* ZRANGEBYSCORE returns the members by increasing score, those of one score
\* in the order of their texts.
RECURSIVE by_score(_, _)
by_score(zset, text) ==
    IF zset = {} THEN <<>>
    ELSE LET m == CHOOSE e \in zset : \A f \in zset :
                     e.score < f.score \/ (e.score = f.score /\ text[e.id] <= text[f.id])
         IN <<m.id>> \o by_score(zset \ {m}, text)

\* The pipeline of _process_delayed_jobs: lpush and zrem for every ready id.
RECURSIVE lpush_all(_, _)
lpush_all(list, ids) ==
    IF ids = <<>> THEN list ELSE lpush_all(lpush(list, Head(ids)), Tail(ids))
RECURSIVE zrem_all(_, _)
zrem_all(zset, ids) ==
    IF ids = <<>> THEN zset ELSE zrem_all(zrem(zset, Head(ids)), Tail(ids))

\* The position after priority number i of the loop of _process_delayed_jobs.
AfterPromote(p, i) ==
    IF i < Len(QueuePriority)
    THEN /\ pc' = [pc EXCEPT ![p] = "promote_read"]
         /\ loc' = [loc EXCEPT ![p].idx = i + 1, ![p].ready = <<>>]
         /\ UNCHANGED last
    ELSE /\ pc' = [pc EXCEPT ![p] = "brpop"]
         /\ loc' = [loc EXCEPT ![p].idx = 1, ![p].ready = <<>>, ![p].wait = now]
         /\ UNCHANGED last

\* The position after priority number i of the loop of dequeue_job: the
\* next BRPOP, or "return None".
AfterBrpop(p, i) ==
    IF i < Len(DequeueOrder)
    THEN /\ pc' = [pc EXCEPT ![p] = "brpop"]
         /\ loc' = [loc EXCEPT ![p].idx = i + 1, ![p].wait = now]
         /\ UNCHANGED last
    ELSE /\ pc' = [pc EXCEPT ![p] = "idle"]
         /\ Return(p, [NoCall EXCEPT !.op = "dequeue_job",
                                     !.only_due = loc[p].only_due,
                                     !.active_first = loc[p].active_first])

\* History: the job that is alone in the queues, delayed and due, when a
\* dequeue_job call starts (None when there is no such job).
OnlyDue ==
    IF ActiveIds = {} /\ Cardinality(DelayedIds) = 1
       /\ \E pr \in QueuePriorityNames : \E e \in delayed[pr] : e.score <= now
    THEN CHOOSE j \in DelayedIds : TRUE
    ELSE None

\* History: the job at the tail of the highest-priority non-empty active
\* list when a dequeue_job call starts (None when every list is empty).
ActiveFirst ==
    IF ActiveIds = {} THEN None
    ELSE LET i == CHOOSE k \in 1..Len(DequeueOrder) :
                     /\ queue[DequeueOrder[k]] # <<>>
                     /\ \A h \in 1..(k - 1) : queue[DequeueOrder[h]] = <<>>
         IN rpop_value(queue[DequeueOrder[i]])

\* The call, up to the first ZRANGEBYSCORE: "now = time.time()".
dequeue_job(p, timeout) ==
    /\ pc[p] = "idle"
    /\ pc' = [pc EXCEPT ![p] = "promote_read"]
    /\ loc' = [loc EXCEPT ![p] =
                 [IdleLoc EXCEPT !.op = "dequeue_job", !.timeout = timeout, !.idx = 1,
                                 !.snap = now, !.db = Snapshot,
                                 !.only_due = IF Observed THEN OnlyDue ELSE None,
                                 !.active_first = IF Observed THEN ActiveFirst ELSE None]]
    /\ UNCHANGED <<pipeline_vars, config_vars, handed,
                   now, next_uuid, store, queue, delayed, counters, dlq, user_jobs,
                   results, stats, last, unit_of>>

process_delayed_read(p) ==
    /\ pc[p] = "promote_read"
    /\ LET pr == QueuePriority[loc[p].idx]
           ready == by_score(ready_jobs(delayed[pr], loc[p].snap), uuid_text)
       IN IF ready = <<>>
          THEN AfterPromote(p, loc[p].idx)
          ELSE /\ pc' = [pc EXCEPT ![p] = "promote_exec"]
               /\ loc' = [loc EXCEPT ![p].ready = ready]
               /\ UNCHANGED last
    /\ UNCHANGED <<pipeline_vars, config_vars, handed,
                   now, next_uuid, store, queue, delayed, counters, dlq, user_jobs,
                   results, stats, unit_of>>

process_delayed_exec(p) ==
    /\ pc[p] = "promote_exec"
    /\ LET pr == QueuePriority[loc[p].idx]
       IN /\ queue' = [queue EXCEPT ![pr] = lpush_all(@, loc[p].ready)]
          /\ delayed' = [delayed EXCEPT ![pr] = zrem_all(@, loc[p].ready)]
    /\ AfterPromote(p, loc[p].idx)
    /\ UNCHANGED <<pipeline_vars, config_vars, handed,
                   now, next_uuid, store, counters, dlq, user_jobs, results, stats,
                   unit_of>>

\* BRPOP answers with an element of the list.
brpop_pop(p) ==
    /\ pc[p] = "brpop"
    /\ LET pr == DequeueOrder[loc[p].idx]
       IN /\ queue[pr] # <<>>
          /\ queue' = [queue EXCEPT ![pr] = rpop_rest(@)]
          /\ loc' = [loc EXCEPT ![p].popped = Append(@, rpop_value(queue[pr]))]
          /\ handed' = IF handed = NotRecorded THEN handed
                       ELSE Append(handed, rpop_value(queue[pr]))
    /\ pc' = [pc EXCEPT ![p] = "deq_hget"]
    /\ UNCHANGED <<pipeline_vars, config_vars,
                   now, next_uuid, store, delayed, counters, dlq, user_jobs, results, stats,
                   last, unit_of>>

\* BRPOP times out on an empty list.
brpop_timeout(p) ==
    /\ pc[p] = "brpop"
    /\ queue[DequeueOrder[loc[p].idx]] = <<>>
    /\ now >= loc[p].wait + loc[p].timeout
    /\ AfterBrpop(p, loc[p].idx)
    /\ UNCHANGED <<pipeline_vars, config_vars, handed,
                   now, next_uuid, store, queue, delayed, counters, dlq, user_jobs,
                   results, stats, unit_of>>

\* "job_data = await self._get_job_data(job_id)" for the id BRPOP answered:
\* a record that is read is to be marked PROCESSING; otherwise the loop goes
\* on with the next priority.
dequeue_job_hget(p) ==
    /\ pc[p] = "deq_hget"
    /\ LET id == loc[p].popped[Len(loc[p].popped)]
           job_data == _get_job_data_of_popped(store, id, now, decode_responses)
       IN IF job_data = <<>>
          THEN AfterBrpop(p, loc[p].idx)
          ELSE /\ pc' = [pc EXCEPT ![p] = "upd_hget"]
               /\ loc' = [loc EXCEPT ![p].job = job_data, ![p].upd_id = id,
                                     ![p].upd_status = "PROCESSING",
                                     ![p].upd_error = NoneStr]
               /\ UNCHANGED last
    /\ UNCHANGED <<pipeline_vars, config_vars, handed,
                   now, next_uuid, store, queue, delayed, counters, dlq, user_jobs,
                   results, stats, unit_of>>

(***************************************************************************)
(* complete_job and fail_job                                               *)
(***************************************************************************)
\* The call, up to the HGET of _update_job_status(job_id, COMPLETED).
complete_job(p, job_id) ==
    /\ pc[p] = "idle"
    /\ pc' = [pc EXCEPT ![p] = "upd_hget"]
    /\ loc' = [loc EXCEPT ![p] =
                 [IdleLoc EXCEPT !.op = "complete_job", !.arg_job = job_id,
                                 !.upd_id = job_id, !.upd_status = "COMPLETED",
                                 !.db = Snapshot]]
    /\ UNCHANGED <<pipeline_vars, config_vars, handed,
                   now, next_uuid, store, queue, delayed, counters, dlq, user_jobs,
                   results, stats, last, unit_of>>

\* SET job:{id}:result ... EX 86400; the call returns.
complete_job_set(p) ==
    /\ pc[p] = "complete_set"
    /\ results' = set_result(results, loc[p].arg_job, now)
    /\ pc' = [pc EXCEPT ![p] = "idle"]
    /\ Return(p, [NoCall EXCEPT !.op = "complete_job", !.arg_job = loc[p].arg_job])
    /\ UNCHANGED <<pipeline_vars, config_vars, handed,
                   now, next_uuid, store, queue, delayed, counters, dlq, user_jobs,
                   stats, unit_of>>

\* DeadLetterQueue.add_failed_job: LPUSH then LTRIM 0 999.  failed_at is
\* written as the text of the instant.
dlq_entry(job, error, t) ==
    [job_id |-> job.job_id, user_id |-> job.user_id, job_type |-> job.job_type,
     failed_at |-> JDate(t), error |-> error, retry_count |-> job.retry_count,
     original_payload |-> job.payload]
dlq_lpush(list, job, error, t) == lpush(list, dlq_entry(job, error, t))
\* LTRIM dead_letter_queue 0 999 keeps the DLQ_CAP elements nearest the head.
dlq_ltrim(list) == SubSeq(list, 1, IF Len(list) < DLQ_CAP THEN Len(list) ELSE DLQ_CAP)

Min(a, b) == IF a < b THEN a ELSE b
backoff_delay(retry_count) == Min(BACKOFF_CAP, BACKOFF_BASE * (2 ^ retry_count))

\* History: how many failure reports with retry=true in a row, this one
\* included, were made for one unit of work.
StreakAfter(job_id, retry) ==
    IF ~(retry /\ hexists(store, job_id, now)) THEN 0
    ELSE IF last.op = "fail_job" /\ last.arg_retry /\ last.streak > 0
            /\ unit_of[last.arg_job] = unit_of[job_id]
    THEN last.streak + 1
    ELSE 1

\* The call, up to the HGET of _get_job_data(job_id).
fail_job(p, job_id, error, retry) ==
    /\ pc[p] = "idle"
    /\ pc' = [pc EXCEPT ![p] = "fail_hget"]
    /\ loc' = [loc EXCEPT ![p] =
                 [IdleLoc EXCEPT !.op = "fail_job", !.arg_job = job_id, !.error = error,
                                 !.retry = retry, !.db = Snapshot,
                                 !.streak = IF Observed THEN StreakAfter(job_id, retry)
                                            ELSE 0]]
    /\ UNCHANGED <<pipeline_vars, config_vars, handed,
                   now, next_uuid, store, queue, delayed, counters, dlq, user_jobs,
                   results, stats, last, unit_of>>

\* The commands of fail_job's own body and of dlq.add_failed_job: the HGET
\* of the record, after which the retry is enqueued (enqueue_job reads the
\* clock for its rate-limit keys) or the final failure starts; and, at the
\* end of the final failure, LPUSH and LTRIM of the dead-letter list and
\* "self.stats['jobs_failed'] += 1".
fail_job_commands(p) ==
    /\ pc[p] \in {"fail_hget", "fail_lpush", "fail_ltrim"}
    /\ LET l == loc[p]
           returned == [NoCall EXCEPT !.op = "fail_job", !.arg_job = l.arg_job,
                                      !.arg_retry = l.retry, !.msg = l.error,
                                      !.streak = l.streak]
       IN CASE pc[p] = "fail_hget" ->
                 LET read == _get_job_data(store, l.arg_job, now)
                 IN /\ UNCHANGED <<dlq, stats>>
                    /\ IF read = <<>>
                       THEN /\ pc' = [pc EXCEPT ![p] = "idle"]
                            /\ Return(p, returned)
                       ELSE LET job_data == [read[1] EXCEPT !.retry_count = @ + 1]
                            IN IF l.retry /\ job_data.retry_count <= job_data.max_retries
                               THEN /\ pc' = [pc EXCEPT ![p] = "rl"]
                                    /\ loc' = [loc EXCEPT
                                          ![p].job = <<job_data>>,
                                          ![p].user_id = job_data.user_id,
                                          ![p].job_type = job_data.job_type,
                                          ![p].payload = job_data.payload,
                                          ![p].priority = job_data.priority,
                                          ![p].delay = backoff_delay(job_data.retry_count),
                                          ![p].idx = 1, ![p].snap = now]
                                    /\ UNCHANGED last
                               ELSE /\ pc' = [pc EXCEPT ![p] = "upd_hget"]
                                    /\ loc' = [loc EXCEPT
                                          ![p].job = <<job_data>>,
                                          ![p].upd_id = l.arg_job,
                                          ![p].upd_status = "FAILED",
                                          ![p].upd_error = l.error,
                                          ![p].branch = "final"]
                                    /\ UNCHANGED last
            [] pc[p] = "fail_lpush" ->
                 /\ dlq' = dlq_lpush(dlq, l.job[1], l.error, l.failed_at)
                 /\ pc' = [pc EXCEPT ![p] = "fail_ltrim"]
                 /\ UNCHANGED <<loc, last, stats>>
            [] pc[p] = "fail_ltrim" ->
                 /\ dlq' = dlq_ltrim(dlq)
                 /\ stats' = [stats EXCEPT !.jobs_failed = @ + 1]
                 /\ pc' = [pc EXCEPT ![p] = "idle"]
                 /\ Return(p, returned)
    /\ UNCHANGED <<pipeline_vars, config_vars, handed,
                   now, next_uuid, store, queue, delayed, counters, user_jobs, results,
                   unit_of>>

\* EnhancedQueueManager defines no cancel (and no cancel_job) method: the
\* call manager.cancel(job_id) raises AttributeError and nothing is written.
cancel(p, job_id) ==
    /\ pc[p] = "idle"
    /\ Return(p, [NoCall EXCEPT !.op = "cancel", !.arg_job = job_id,
                                !.msg = "AttributeError"])
    /\ UNCHANGED <<pipeline_vars, redis_vars, pc>>

(***************************************************************************)
(* DeadLetterQueue called directly: add_failed_job (LPUSH, then LTRIM),    *)
(* get_failed_jobs and cleanup_old_entries (LRANGE, then a pipeline of     *)
(* DELETE and LPUSH).                                                      *)
(***************************************************************************)
\* The call, up to the LPUSH: the entry is built, with the clock's instant.
add_failed_job(p, job, error) ==
    /\ pc[p] = "idle"
    /\ pc' = [pc EXCEPT ![p] = "dlq_lpush"]
    /\ loc' = [loc EXCEPT ![p] = [IdleLoc EXCEPT !.op = "add_failed_job", !.job = <<job>>,
                                                 !.job_id = job.job_id, !.error = error,
                                                 !.failed_at = now]]
    /\ UNCHANGED <<pipeline_vars, config_vars, handed,
                   now, next_uuid, store, queue, delayed, counters, dlq, user_jobs,
                   results, stats, last, unit_of>>

add_failed_job_lpush(p) ==
    /\ pc[p] = "dlq_lpush"
    /\ dlq' = dlq_lpush(dlq, loc[p].job[1], loc[p].error, loc[p].failed_at)
    /\ pc' = [pc EXCEPT ![p] = "dlq_ltrim"]
    /\ UNCHANGED <<pipeline_vars, config_vars, handed,
                   now, next_uuid, store, queue, delayed, counters, user_jobs,
                   results, stats, loc, last, unit_of>>

add_failed_job_ltrim(p) ==
    /\ pc[p] = "dlq_ltrim"
    /\ dlq' = dlq_ltrim(dlq)
    /\ pc' = [pc EXCEPT ![p] = "idle"]
    /\ Return(p, [NoCall EXCEPT !.op = "add_failed_job", !.arg_job = loc[p].job_id])
    /\ UNCHANGED <<pipeline_vars, config_vars, handed,
                   now, next_uuid, store, queue, delayed, counters, user_jobs,
                   results, stats, unit_of>>

\* LRANGE key 0 stop: the elements at the offsets 0..stop; a negative stop
\* counts from the tail (-1 is the last element).
lrange_from_head(list, stop) ==
    LET last_offset == IF stop < 0 THEN Len(list) + stop ELSE stop
    IN SubSeq(list, 1, Min(last_offset + 1, Len(list)))

\* lrange(dlq_key, 0, limit - 1), then the entries of the user (all entries
\* when user_id is None), in the order of the list.
get_failed_jobs(list, user_id, limit) ==
    SelectSeq(lrange_from_head(list, limit - 1),
              LAMBDA e : user_id = NoneStr \/ e.user_id = user_id)

\* cutoff_date = now - timedelta(days=max_age_days), in seconds.
cutoff_date(t) == t - max_age_days * 86400
\* The entries cleanup_old_entries keeps: failed_at parses and is after the
\* cutoff; in the order of the list.
valid_entries(list, cutoff) ==
    SelectSeq(list, LAMBDA e : fromisoformat_ok(e.failed_at) /\ e.failed_at.n > cutoff)
\* The loop catches JSONDecodeError, ValueError and KeyError; the TypeError
\* of a failed_at that is no string leaves cleanup_old_entries.
valid_entries_raises(list) ==
    \E i \in 1..Len(list) : fromisoformat_TypeError(list[i].failed_at)

\* LPUSH key v1 v2 ... vn: the values go to the head one after the other, so
\* vn ends up first.
lpush_many(list, values) ==
    [i \in 1..Len(values) |-> values[Len(values) + 1 - i]] \o list

\* The call, up to the LRANGE: the cutoff is computed.
cleanup_old_entries(p) ==
    /\ pc[p] = "idle"
    /\ pc' = [pc EXCEPT ![p] = "dlq_read"]
    /\ loc' = [loc EXCEPT ![p] = [IdleLoc EXCEPT !.op = "cleanup_old_entries",
                                                 !.cutoff = cutoff_date(now)]]
    /\ UNCHANGED <<pipeline_vars, config_vars, handed,
                   now, next_uuid, store, queue, delayed, counters, dlq, user_jobs,
                   results, stats, last, unit_of>>

\* LRANGE dead_letter_queue 0 -1, and the loop over its answer.
cleanup_old_entries_read(p) ==
    /\ pc[p] = "dlq_read"
    /\ IF valid_entries_raises(dlq)
       THEN /\ pc' = [pc EXCEPT ![p] = "idle"]
            /\ Return(p, [NoCall EXCEPT !.op = "cleanup_old_entries", !.msg = "TypeError"])
       ELSE /\ pc' = [pc EXCEPT ![p] = "dlq_replace"]
            /\ loc' = [loc EXCEPT ![p].valid_entries = valid_entries(dlq, loc[p].cutoff)]
            /\ UNCHANGED last
    /\ UNCHANGED <<pipeline_vars, config_vars, handed,
                   now, next_uuid, store, queue, delayed, counters, dlq,
                   user_jobs, results, stats, unit_of>>

\* The pipeline: DELETE, then LPUSH key *valid_entries, which puts the
\* entries at the head one after the other.
cleanup_old_entries_replace(p) ==
    /\ pc[p] = "dlq_replace"
    /\ dlq' = lpush_many(<<>>, loc[p].valid_entries)
    /\ pc' = [pc EXCEPT ![p] = "idle"]
    /\ Return(p, [NoCall EXCEPT !.op = "cleanup_old_entries"])
    /\ UNCHANGED <<pipeline_vars, config_vars, handed,
                   now, next_uuid, store, queue, delayed, counters, user_jobs,
                   results, stats, unit_of>>

\* Days pass.
TickDLQ ==
    /\ now' = now + ClockStepDLQ
    /\ UNCHANGED <<pipeline_vars, config_vars, handed,
                   next_uuid, store, queue, delayed, counters, dlq, user_jobs,
                   results, stats, pc, loc, last, unit_of>>

\* A dead-letter list that earlier failures have filled up to n entries.
EarlierEntry ==
    dlq_entry(NewQueueJob(0, "u1", "render", "p1", "NORMAL", 0, 0), "earlier", 0)
FilledDLQ(n) == [i \in 1..n |-> EarlierEntry]
\* The entries of the list that were added since the start.
LaterEntries(list) == SelectSeq(list, LAMBDA e : e # EarlierEntry)

(***************************************************************************)
(* initialize(), the two background tasks and shutdown().  A task is at    *)
(* "created" until the event loop runs it for the first time; every other  *)
(* position is an await of its coroutine.                                  *)
(***************************************************************************)
CLEANUP_INTERVAL == 300
MONITOR_INTERVAL == 60
EXPIRED_AFTER == 86400

\* Two tasks are made and the fields are set to them, whatever the fields
\* held: tasks of an earlier call go on running with no field naming them.
initialize ==
    /\ tasks' = [tasks EXCEPT
                    !.all = @ \o <<NewTask("_background_cleanup"), NewTask("_monitor_queues")>>,
                    !._cleanup_task = Len(tasks.all) + 1,
                    !._monitor_task = Len(tasks.all) + 2]
    /\ UNCHANGED <<cuda, monitor, model_cache, redis_vars, pc, loc, last>>

Tasks == DOMAIN tasks.all
CleanupTasks == {i \in Tasks : tasks.all[i].coro = "_background_cleanup"}
MonitorTasks == {i \in Tasks : tasks.all[i].coro = "_monitor_queues"}
\* Task.done()
done(i) == tasks.all[i].pc = "finished"
sleep_interval(i) ==
    IF tasks.all[i].coro = "_background_cleanup" THEN CLEANUP_INTERVAL ELSE MONITOR_INTERVAL

\* The loop swallows the CancelledError and goes round again.
task_cancelled_and_swallowed(i) ==
    /\ ~done(i)
    /\ tasks.all[i].must_cancel
    /\ tasks' = [tasks EXCEPT !.all[i].pc = "sleep", !.all[i].must_cancel = FALSE,
                              !.all[i].wake_at = now + sleep_interval(i)]
    /\ UNCHANGED <<cuda, monitor, model_cache, redis_vars, pc, loc, last>>

\* The CancelledError is thrown into the coroutine at the await it is
\* suspended on (a task that never ran is just marked cancelled):
\* "except asyncio.CancelledError: break".
task_cancelled(i) ==
    /\ ~done(i)
    /\ tasks.all[i].must_cancel
    /\ tasks' = [tasks EXCEPT !.all[i].pc = "finished", !.all[i].must_cancel = FALSE]
    /\ UNCHANGED <<cuda, monitor, model_cache, redis_vars, pc, loc, last>>

\* The first run of a task, up to "await asyncio.sleep(...)".
task_start(i) ==
    /\ tasks.all[i].pc = "created"
    /\ ~tasks.all[i].must_cancel
    /\ tasks' = [tasks EXCEPT !.all[i].pc = "sleep", !.all[i].wake_at = now + sleep_interval(i)]
    /\ UNCHANGED <<cuda, monitor, model_cache, redis_vars, pc, loc, last>>

\* The keys that match "job:*" and exist at instant t.
job_keys(st, res, t) ==
    {k \in redis_keys(st, res, t) : k.shape \in {"job:{id}", "job:{id}:result"}}

\* The sleep of _background_cleanup is over: _cleanup_expired_jobs computes
\* its cutoff and sends the first SCAN.
cleanup_wake(i) ==
    /\ tasks.all[i].pc = "sleep"
    /\ ~tasks.all[i].must_cancel
    /\ now >= tasks.all[i].wake_at
    /\ tasks' = [tasks EXCEPT !.all[i].pc = "scan", !.all[i].cutoff = now - EXPIRED_AFTER,
                              !.all[i].pending = {}, !.all[i].key = NoKey]
    /\ UNCHANGED <<cuda, monitor, model_cache, redis_vars, pc, loc, last>>

\* The sweep goes on to the next key SCAN answered; after the last one
\* _cleanup_expired_jobs returns and dlq.cleanup_old_entries() computes its
\* cutoff.
cleanup_next_key(c, pending, t) ==
    IF pending # {}
    THEN [c EXCEPT !.pc = "hget", !.pending = pending, !.key = NoKey]
    ELSE [c EXCEPT !.pc = "dlq_read", !.pending = {}, !.key = NoKey,
                   !.cutoff = cutoff_date(t)]

\* An exception leaves _cleanup_expired_jobs: "except Exception" of the loop
\* logs it and the loop sleeps again.
cleanup_failed(c, t) ==
    [c EXCEPT !.pc = "sleep", !.pending = {}, !.key = NoKey, !.logged = TRUE,
              !.wake_at = t + CLEANUP_INTERVAL]

\* f"{key}:result" of a key that SCAN answered: with a client that answers in
\* bytes it is "b'job:...':result", which no key is called.
delete_result_of_scanned(res, id, decoded) ==
    IF decoded THEN delete_result(res, id) ELSE res

\* The commands of _cleanup_expired_jobs.  SCAN answers with the keys that
\* match job:*, in one reply (the key space fits in one) and in no
\* particular order.  For each of them HGET key data: on a job:{id}:result
\* key, which is a string, the server answers WRONGTYPE; a key that has gone
\* since the SCAN gives None and is passed over.  A record whose created_at
\* is no string raises TypeError, which the sweep does not catch; one whose
\* created_at is no datetime text is deleted; one older than the cutoff is
\* deleted, and then its result.
_cleanup_expired_jobs(i) ==
    /\ tasks.all[i].pc \in {"scan", "hget", "del_key", "del_result", "del_invalid"}
    /\ ~tasks.all[i].must_cancel
    /\ LET c == tasks.all[i]
       IN CASE c.pc = "scan" ->
                 /\ tasks' = [tasks EXCEPT !.all[i] =
                                 cleanup_next_key(c, job_keys(store, results, now), now)]
                 /\ UNCHANGED <<store, results>>
            [] c.pc = "hget" ->
                 \E k \in c.pending :
                    /\ UNCHANGED <<store, results>>
                    /\ tasks' = [tasks EXCEPT !.all[i] =
                          IF k.shape = "job:{id}:result"
                          THEN IF result_exists(results, k.id, now)
                               THEN cleanup_failed(c, now)
                               ELSE cleanup_next_key(c, c.pending \ {k}, now)
                          ELSE IF ~hexists(store, k.id, now)
                               THEN cleanup_next_key(c, c.pending \ {k}, now)
                          ELSE IF fromisoformat_TypeError(store[k.id].data.created_at)
                               THEN cleanup_failed(c, now)
                          ELSE IF ~fromisoformat_ok(store[k.id].data.created_at)
                               THEN [c EXCEPT !.pc = "del_invalid", !.key = k,
                                              !.pending = c.pending \ {k}]
                          ELSE IF store[k.id].data.created_at.n < c.cutoff
                               THEN [c EXCEPT !.pc = "del_key", !.key = k,
                                              !.pending = c.pending \ {k}]
                          ELSE cleanup_next_key(c, c.pending \ {k}, now)]
            [] c.pc = "del_key" ->
                 /\ store' = delete_job(store, c.key.id)
                 /\ tasks' = [tasks EXCEPT !.all[i].pc = "del_result"]
                 /\ UNCHANGED results
            [] c.pc = "del_result" ->
                 /\ results' = delete_result_of_scanned(results, c.key.id, decode_responses)
                 /\ tasks' = [tasks EXCEPT !.all[i] = cleanup_next_key(c, c.pending, now)]
                 /\ UNCHANGED store
            [] c.pc = "del_invalid" ->
                 /\ store' = delete_job(store, c.key.id)
                 /\ tasks' = [tasks EXCEPT !.all[i] = cleanup_next_key(c, c.pending, now)]
                 /\ UNCHANGED results
    /\ UNCHANGED <<cuda, monitor, model_cache, config_vars, now, next_uuid, queue, delayed,
                   counters, dlq, user_jobs, stats, unit_of, handed, pc, loc, last>>

\* dlq.cleanup_old_entries() reads the list ...
cleanup_dlq_read(i) ==
    /\ tasks.all[i].pc = "dlq_read"
    /\ ~tasks.all[i].must_cancel
    /\ tasks' = [tasks EXCEPT !.all[i] =
                    IF valid_entries_raises(dlq)
                    THEN cleanup_failed(tasks.all[i], now)
                    ELSE [@ EXCEPT !.pc = "dlq_replace",
                                   !.valid_entries = valid_entries(dlq, tasks.all[i].cutoff)]]
    /\ UNCHANGED <<cuda, monitor, model_cache, redis_vars, pc, loc, last>>

\* ... and replaces it; the loop goes back to sleep.
cleanup_dlq_replace(i) ==
    /\ tasks.all[i].pc = "dlq_replace"
    /\ ~tasks.all[i].must_cancel
    /\ dlq' = lpush_many(<<>>, tasks.all[i].valid_entries)
    /\ tasks' = [tasks EXCEPT !.all[i].pc = "sleep", !.all[i].valid_entries = <<>>,
                              !.all[i].wake_at = now + CLEANUP_INTERVAL]
    /\ UNCHANGED <<cuda, monitor, model_cache, config_vars, now, next_uuid, store, queue,
                   delayed, counters, user_jobs, results, stats, unit_of, handed, pc, loc, last>>

\* The sleep of _monitor_queues is over: get_queue_stats starts.
monitor_wake(i) ==
    /\ tasks.all[i].pc = "sleep"
    /\ ~tasks.all[i].must_cancel
    /\ now >= tasks.all[i].wake_at
    /\ tasks' = [tasks EXCEPT !.all[i].pc = "stats", !.all[i].idx = 1]
    /\ UNCHANGED <<cuda, monitor, model_cache, redis_vars, pc, loc, last>>

\* get_queue_stats: LLEN and ZCARD for one entry of queue_keys after the
\* other, then LLEN of the dead-letter list, nine commands; the warnings
\* are log lines.
monitor_stats_read(i) ==
    /\ tasks.all[i].pc = "stats"
    /\ ~tasks.all[i].must_cancel
    /\ tasks' = IF tasks.all[i].idx <= 2 * Len(queue_keys)
                THEN [tasks EXCEPT !.all[i].idx = @ + 1]
                ELSE [tasks EXCEPT !.all[i].pc = "sleep", !.all[i].idx = 0,
                                   !.all[i].wake_at = now + MONITOR_INTERVAL]
    /\ UNCHANGED <<cuda, monitor, model_cache, redis_vars, pc, loc, last>>

\* "if task and not task.done()"
not_done(t, i) == i # None /\ t.all[i].pc # "finished"

\* shutdown() from "if self._monitor_task ..." on: the task is cancelled and
\* awaited, or the call returns.
shutdown_monitor_task(t) ==
    IF not_done(t, t._monitor_task)
    THEN [t EXCEPT !.all[t._monitor_task].must_cancel = TRUE,
                   !.shutdown = "await_monitor_task", !.awaited = t._monitor_task]
    ELSE [t EXCEPT !.shutdown = "returned", !.awaited = None]

\* shutdown() is called, by one caller at a time: the call as far as its
\* first await.  There is no await between the tests of the two fields, so
\* with no cleanup task to wait for the call goes on to the monitor task in
\* the same run.
shutdown ==
    /\ tasks.shutdown \in {"none", "returned"}
    /\ tasks' = IF not_done(tasks, tasks._cleanup_task)
                THEN [tasks EXCEPT !.all[tasks._cleanup_task].must_cancel = TRUE,
                                   !.shutdown = "await_cleanup_task",
                                   !.awaited = tasks._cleanup_task]
                ELSE shutdown_monitor_task(tasks)
    /\ UNCHANGED <<cuda, monitor, model_cache, redis_vars, pc, loc, last>>

\* "await self._cleanup_task" returns, or raises the CancelledError that is
\* passed over, once the task is done, whatever the field is set to
\* meanwhile; the call goes on to the monitor task.
shutdown_cleanup_awaited ==
    /\ tasks.shutdown = "await_cleanup_task"
    /\ done(tasks.awaited)
    /\ tasks' = shutdown_monitor_task(tasks)
    /\ UNCHANGED <<cuda, monitor, model_cache, redis_vars, pc, loc, last>>

\* "await self._monitor_task" is over and shutdown() returns.
shutdown_monitor_awaited ==
    /\ tasks.shutdown = "await_monitor_task"
    /\ done(tasks.awaited)
    /\ tasks' = [tasks EXCEPT !.shutdown = "returned", !.awaited = None]
    /\ UNCHANGED <<cuda, monitor, model_cache, redis_vars, pc, loc, last>>

\* Most of a day passes.
TickBg ==
    /\ now' = now + ClockStepBg
    /\ UNCHANGED <<pipeline_vars, config_vars, handed,
                   next_uuid, store, queue, delayed, counters, dlq, user_jobs,
                   results, stats, pc, loc, last, unit_of>>

\* The steps of task i that send a command to the store.
StoreSteps(i) ==
    \/ i \in CleanupTasks /\ _cleanup_expired_jobs(i)
    \/ i \in CleanupTasks /\ cleanup_dlq_read(i)
    \/ i \in CleanupTasks /\ cleanup_dlq_replace(i)
    \/ i \in MonitorTasks /\ monitor_stats_read(i)
\* The steps of task i other than the end of it.
TaskSteps(i) ==
    \/ task_start(i)
    \/ i \in CleanupTasks /\ cleanup_wake(i)
    \/ i \in MonitorTasks /\ monitor_wake(i)
    \/ StoreSteps(i)
\* The steps of a shutdown() call after the call itself.
ShutdownSteps ==
    \/ shutdown_cleanup_awaited
    \/ shutdown_monitor_awaited
(***************************************************************************)
(* GPUMemoryMonitor: the statistics.  Memory is counted in GiB, so that    *)
(* "/ 1024**3" and round(x, 2) give the count itself; percentages are kept *)
(* in tenths of a percent.                                                 *)
(***************************************************************************)
memory_threshold == 90

(***************************************************************************)
(* IEEE 754 binary64 as far as "(allocated / total) * 100" and round(x, 1) *)
(* need it.  A natural number of any size is the sequence of its digits in *)
(* base LimbBase, the least significant first; a float is m * 2^e with m   *)
(* such a number of at most MANT_DIG bits.                                 *)
(***************************************************************************)
MANT_DIG == 53
LimbBits == 15
LimbBase == 2 ^ LimbBits

\* x * c + carry, for c < LimbBase.
RECURSIVE mul_small(_, _, _)
mul_small(x, c, carry) ==
    IF x = <<>> THEN (IF carry = 0 THEN <<>> ELSE <<carry>>)
    ELSE <<(x[1] * c + carry) % LimbBase>> \o
         mul_small(Tail(x), c, (x[1] * c + carry) \div LimbBase)

\* floor(r * LimbBase^n / t) for r < t * LimbBase, and what is left over.
RECURSIVE long_division(_, _, _)
long_division(r, t, n) ==
    IF n = 0 THEN <<r \div t>>
    ELSE long_division((r % t) * LimbBase, t, n - 1) \o <<r \div t>>
RECURSIVE division_remainder(_, _, _)
division_remainder(r, t, n) ==
    IF n = 0 THEN r % t ELSE division_remainder((r % t) * LimbBase, t, n - 1)

\* The number of bits of x: 0 for zero.
bit_length(x) ==
    LET used == {i \in 1..Len(x) : x[i] # 0}
    IN  IF used = {} THEN 0
        ELSE LET top == CHOOSE i \in used : \A k \in used : k <= i
             IN  LimbBits * (top - 1) + (CHOOSE n \in 1..LimbBits :
                                            x[top] \div (2 ^ (n - 1)) = 1)

\* x / 2^drop to the nearest natural number, a tie to the even one; inexact
\* says that x itself stands for a little more than x.
round_half_even(x, drop, inexact) ==
    LET whole == (drop - 1) \div LimbBits
        y == mul_small(x, 2 ^ (LimbBits * (whole + 1) - drop), 0)
        limb(i) == IF i <= Len(y) THEN y[i] ELSE 0
        kept == SubSeq(y, whole + 2, Len(y))
        half == LimbBase \div 2
        rest == inexact \/ limb(whole + 1) % half # 0 \/ \E i \in 1..whole : limb(i) # 0
        up == /\ limb(whole + 1) >= half
              /\ rest \/ (kept # <<>> /\ kept[1] % 2 = 1)
    IN  IF up THEN mul_small(IF kept = <<>> THEN <<0>> ELSE kept, 1, 1) ELSE kept

\* The float nearest to x * 2^e.
float_of(x, e, inexact) ==
    LET drop == bit_length(x) - MANT_DIG
    IN  IF drop <= 0 THEN [m |-> x, e |-> e]
        ELSE [m |-> round_half_even(x, drop, inexact), e |-> e + drop]

\* a / t for 0 < a <= t < 2^16, to five digits after the point and rounded.
DivisionLimbs == 5
float_div(a, t) ==
    float_of(long_division(a, t, DivisionLimbs), 0 - LimbBits * DivisionLimbs,
             division_remainder(a, t, DivisionLimbs) # 0)

float_mul(x, c) == float_of(mul_small(x.m, c, 0), x.e, FALSE)

\* round(x, 1) in tenths, for 0 < x < 1000: the natural number nearest to
\* 10 * x, a tie to the even one.
round_1(x) ==
    LET r == round_half_even(mul_small(x.m, 10, 0), 0 - x.e, FALSE)
    IN  IF r = <<>> THEN 0 ELSE r[1]

\* round((allocated / total) * 100, 1) in tenths of a percent: the quotient
\* and the product are floats, so that a percentage that lies halfway
\* between two tenths is rounded from a float a little under or over it.
usage_percentage_of(allocated, total) ==
    IF allocated = 0 THEN 0 ELSE round_1(float_mul(float_div(allocated, total), 100))

\* The percentages of a device of TotalMemory GiB.
DevicePercentages == [a \in 0..TotalMemory |-> usage_percentage_of(a, TotalMemory)]

usage_percentage(c) ==
    IF c.total_memory = TotalMemory /\ c.memory_allocated \in DOMAIN DevicePercentages
    THEN DevicePercentages[c.memory_allocated]
    ELSE usage_percentage_of(c.memory_allocated, c.total_memory)

check_memory_pressure(c) ==
    IF ~c.is_available THEN FALSE ELSE usage_percentage(c) > memory_threshold * 10

\* The lock is taken whoever holds it.
lock_free_or_not(l) == TRUE

\* threading.Lock: "with self.lock" goes on only when no thread holds it.
lock_free(l) == l = None

\* get_memory_stats: the dict it returns, by key.  Without an accelerator
\* the keys are available, used, total and percentage.
get_memory_stats(c, mon) ==
    IF ~c.is_available
    THEN [k \in {"available", "used", "total", "percentage"} |-> 0]
    ELSE [k \in {"allocated_gb", "reserved_gb", "total_gb", "usage_percentage", "peak_gb"} |->
             CASE k = "allocated_gb" -> c.memory_allocated
               [] k = "reserved_gb" -> c.memory_reserved
               [] k = "total_gb" -> c.total_memory
               [] k = "usage_percentage" -> usage_percentage(c)
               [] k = "peak_gb" -> mon.peak_memory]

get_memory_stats_call(p) ==
    /\ pc[p] = "idle"
    /\ Return(p, [NoCall EXCEPT !.op = "get_memory_stats", !.ok = TRUE,
                                !.value = get_memory_stats(cuda, monitor)])
    /\ UNCHANGED <<pipeline_vars, redis_vars, pc>>

check_memory_pressure_call(p) ==
    /\ pc[p] = "idle"
    /\ Return(p, [NoCall EXCEPT !.op = "check_memory_pressure", !.ok = TRUE,
                                !.value = check_memory_pressure(cuda)])
    /\ UNCHANGED <<pipeline_vars, redis_vars, pc>>

\* torch.cuda.empty_cache(), where the code calls it behind
\* "if torch.cuda.is_available()": the allocator gives back what it holds
\* and has not allocated.
empty_cache(c) ==
    IF c.is_available THEN [c EXCEPT !.memory_reserved = c.memory_allocated] ELSE c

\* force_cleanup: under the monitor's lock, which the with statement gives
\* back also when stats['usage_percentage'] raises KeyError; the allocator's
\* cache is emptied before the statistics are read.
force_cleanup(p) ==
    /\ pc[p] = "idle"
    /\ lock_free(monitor.lock)
    /\ cuda' = empty_cache(cuda)
    /\ Return(p, IF "usage_percentage" \in DOMAIN get_memory_stats(cuda, monitor)
                 THEN [NoCall EXCEPT !.op = "force_cleanup", !.ok = TRUE]
                 ELSE [NoCall EXCEPT !.op = "force_cleanup", !.msg = "KeyError"])
    /\ UNCHANGED <<tasks, monitor, model_cache, redis_vars, pc>>

\* "with monitor_memory(...)": up to the yield.
monitor_memory_enter(p) ==
    /\ pc[p] = "idle"
    /\ pc' = [pc EXCEPT ![p] = "work"]
    /\ loc' = [loc EXCEPT ![p] = [IdleLoc EXCEPT !.op = "monitor_memory",
                                                 !.snap = cuda.memory_allocated]]
    /\ UNCHANGED <<pipeline_vars, redis_vars, last>>

\* The device's memory changes: the work of a thread takes and frees
\* memory.  What the allocator has reserved is never less than what is
\* allocated.
work_allocates(a, r) ==
    /\ cuda.is_available
    /\ a <= r
    /\ r <= cuda.total_memory
    /\ cuda' = [cuda EXCEPT !.memory_allocated = a, !.memory_reserved = r]
    /\ UNCHANGED <<tasks, monitor, model_cache, redis_vars, pc, loc, last>>

\* peak_memory is set to the memory now allocated, whatever it was.
finalize_to_current(mon, c) == [mon EXCEPT !.peak_memory = c.memory_allocated]

\* The finally block: "if current_memory > self.peak_memory: ..."
finalize(mon, c) ==
    IF c.memory_allocated > mon.peak_memory THEN [mon EXCEPT !.peak_memory = c.memory_allocated]
    ELSE mon

\* The work returns or raises: without an accelerator the generator just
\* ends, with one the finally block runs; the exception goes on to the caller.
monitor_memory_exit(p, raised) ==
    /\ pc[p] = "work"
    /\ monitor' = IF cuda.is_available THEN finalize(monitor, cuda) ELSE monitor
    /\ pc' = [pc EXCEPT ![p] = "idle"]
    /\ Return(p, [NoCall EXCEPT !.op = "monitor_memory", !.ok = ~raised,
                                !.msg = IF raised THEN "WorkError" ELSE ""])
    /\ UNCHANGED <<tasks, cuda, model_cache, redis_vars>>

(***************************************************************************)
(* EnhancedModelCache.  A dict is the sequence of its items in insertion   *)
(* order; assigning to a key it has keeps the key's place.                 *)
(***************************************************************************)
dict_keys(d) == [i \in 1..Len(d) |-> d[i].k]
dict_has(d, k) == \E i \in 1..Len(d) : d[i].k = k
dict_set(d, k, v) ==
    IF dict_has(d, k)
    THEN [i \in 1..Len(d) |-> IF d[i].k = k THEN [k |-> k, v |-> v] ELSE d[i]]
    ELSE Append(d, [k |-> k, v |-> v])
dict_del(d, k) == SelectSeq(d, LAMBDA e : e.k # k)

\* The first item inserted, whatever its usage time.
first_inserted(d) == d[1].k

\* min(usage_times.keys(), key=lambda k: usage_times[k]): the first key, in
\* the order of the dict, among those of the least value.
min_by_value(d) ==
    LET i == CHOOSE i \in 1..Len(d) :
                 /\ \A j \in 1..Len(d) : d[i].v <= d[j].v
                 /\ \A j \in 1..(i - 1) : d[j].v > d[i].v
    IN  d[i].k
\* max(...): the first key among those of the greatest value.
max_by_value(d) ==
    LET i == CHOOSE i \in 1..Len(d) :
                 /\ \A j \in 1..Len(d) : d[i].v >= d[j].v
                 /\ \A j \in 1..(i - 1) : d[j].v < d[i].v
    IN  d[i].k

\* The loop of _ensure_cache_space goes on only above max_models.
cache_over_full(c) == Len(c.cache) > c.max_models

\* "while len(self.cache) >= self.max_models"
cache_full(c) == Len(c.cache) >= c.max_models

\* The with block is left, by a return or by an exception.
cache_return(p, op) ==
    /\ model_cache' = [model_cache EXCEPT !.lock = None]
    /\ pc' = [pc EXCEPT ![p] = "idle"]
    /\ Return(p, [NoCall EXCEPT !.op = op])

get_acquire(p, model_id) ==
    /\ pc[p] = "idle"
    /\ lock_free(model_cache.lock)
    /\ model_cache' = [model_cache EXCEPT !.lock = p]
    /\ pc' = [pc EXCEPT ![p] = "get_body"]
    /\ loc' = [loc EXCEPT ![p] = [IdleLoc EXCEPT !.op = "get", !.model_id = model_id]]
    /\ UNCHANGED <<tasks, cuda, monitor, redis_vars, last>>

\* A hit refreshes the usage time; the lock is released.
get_body(p) ==
    /\ pc[p] = "get_body"
    /\ model_cache' =
          [model_cache EXCEPT
              !.usage_times = IF dict_has(model_cache.cache, loc[p].model_id)
                              THEN dict_set(@, loc[p].model_id, now) ELSE @,
              !.lock = None]
    /\ pc' = [pc EXCEPT ![p] = "idle"]
    /\ Return(p, [NoCall EXCEPT !.op = "get"])
    /\ UNCHANGED <<tasks, cuda, monitor, redis_vars>>

put_acquire(p, model_id) ==
    /\ pc[p] = "idle"
    /\ lock_free(model_cache.lock)
    /\ model_cache' = [model_cache EXCEPT !.lock = p]
    /\ pc' = [pc EXCEPT ![p] = "put_ensure"]
    /\ loc' = [loc EXCEPT ![p] = [IdleLoc EXCEPT !.op = "put", !.model_id = model_id,
                                                 !.before = model_cache.usage_times,
                                                 !.snap = cuda.memory_allocated]]
    /\ UNCHANGED <<tasks, cuda, monitor, redis_vars, last>>

\* Every model of the cache, the most recently used one included.
all_models(c) == dict_keys(c.cache)

\* The models _evict_all_except_newest evicts, in the order of the cache.
all_except_newest(c) ==
    SelectSeq(dict_keys(c.cache), LAMBDA k : k # max_by_value(c.usage_times))

\* _ensure_cache_space, up to the next eviction.  The memory pressure is
\* tested once, when the method is entered: if it is high every model but
\* the most recently used one is to go.  Otherwise, and after every eviction
\* of the loop, the least recently used model is to go while the cache is
\* full.  min() and max() of an empty dict raise ValueError, which leaves
\* put.
put_ensure(p) ==
    /\ pc[p] = "put_ensure"
    /\ IF ~loc[p].in_loop /\ check_memory_pressure(cuda)
       THEN IF model_cache.cache = <<>>
            THEN /\ pc' = [pc EXCEPT ![p] = "put_set_cache"]
                 /\ loc' = [loc EXCEPT ![p].pressure = TRUE]
                 /\ UNCHANGED <<model_cache, last>>
            ELSE IF model_cache.usage_times = <<>>
                 THEN cache_return(p, "put")
                 ELSE /\ pc' = [pc EXCEPT ![p] = IF all_except_newest(model_cache) = <<>>
                                                 THEN "put_force_cleanup"
                                                 ELSE "evict_del_cache"]
                      /\ loc' = [loc EXCEPT ![p].pressure = TRUE,
                                            ![p].to_evict = all_except_newest(model_cache)]
                      /\ UNCHANGED <<model_cache, last>>
       ELSE IF cache_full(model_cache)
            THEN IF model_cache.usage_times = <<>>
                 THEN cache_return(p, "put")
                 ELSE /\ pc' = [pc EXCEPT ![p] = "evict_del_cache"]
                      /\ loc' = [loc EXCEPT ![p].in_loop = TRUE,
                                            ![p].to_evict =
                                                <<min_by_value(model_cache.usage_times)>>]
                      /\ UNCHANGED <<model_cache, last>>
            ELSE /\ pc' = [pc EXCEPT ![p] = "put_set_cache"]
                 /\ UNCHANGED <<model_cache, loc, last>>
    /\ UNCHANGED <<tasks, cuda, monitor, redis_vars>>

\* Where put goes on after an eviction: to the next model of
\* _evict_all_except_newest and then to force_cleanup, or back to the test
\* of the loop.
after_evict(p) ==
    IF Len(loc[p].to_evict) > 1 THEN "evict_del_cache"
    ELSE IF loc[p].pressure THEN "put_force_cleanup" ELSE "put_ensure"

\* _evict(model_id): "if model_id in self.cache: del self.cache[model_id]" ...
evict_del_cache(p) ==
    /\ pc[p] = "evict_del_cache"
    /\ IF dict_has(model_cache.cache, Head(loc[p].to_evict))
       THEN /\ model_cache' = [model_cache EXCEPT !.cache = dict_del(@, Head(loc[p].to_evict))]
            /\ pc' = [pc EXCEPT ![p] = "evict_del_usage"]
            /\ UNCHANGED loc
       ELSE /\ pc' = [pc EXCEPT ![p] = after_evict(p)]
            /\ loc' = [loc EXCEPT ![p].to_evict = Tail(@)]
            /\ UNCHANGED model_cache
    /\ UNCHANGED <<tasks, cuda, monitor, redis_vars, last>>

\* ... "del self.usage_times[model_id]", a KeyError when the key is not
\* there, and the model's entry of memory_sizes; then gc.collect() and
\* empty_cache().
evict_del_usage(p) ==
    /\ pc[p] = "evict_del_usage"
    /\ IF dict_has(model_cache.usage_times, Head(loc[p].to_evict))
       THEN /\ model_cache' =
                  [model_cache EXCEPT !.usage_times = dict_del(@, Head(loc[p].to_evict)),
                                      !.memory_sizes = dict_del(@, Head(loc[p].to_evict))]
            /\ cuda' = empty_cache(cuda)
            /\ pc' = [pc EXCEPT ![p] = after_evict(p)]
            /\ loc' = [loc EXCEPT ![p].to_evict = Tail(@)]
            /\ UNCHANGED last
       ELSE /\ cache_return(p, "put")
            /\ UNCHANGED cuda
    /\ UNCHANGED <<tasks, monitor, redis_vars>>

\* memory_monitor.force_cleanup() at the end of _evict_all_except_newest; an
\* accelerator is present here, as the pressure was high.
put_force_cleanup(p) ==
    /\ pc[p] = "put_force_cleanup"
    /\ lock_free(monitor.lock)
    /\ cuda' = empty_cache(cuda)
    /\ pc' = [pc EXCEPT ![p] = "put_set_cache"]
    /\ UNCHANGED <<tasks, monitor, model_cache, redis_vars, loc, last>>

\* "self.cache[model_id] = model" ...
put_set_cache(p) ==
    /\ pc[p] = "put_set_cache"
    /\ model_cache' = [model_cache EXCEPT
                          !.cache = dict_set(@, loc[p].model_id, loc[p].model_id)]
    /\ pc' = [pc EXCEPT ![p] = "put_set_usage"]
    /\ UNCHANGED <<tasks, cuda, monitor, redis_vars, loc, last>>

\* ... "self.usage_times[model_id] = datetime.now()" and, with an
\* accelerator, the memory taken since put began; the lock is released.
put_set_usage(p) ==
    /\ pc[p] = "put_set_usage"
    /\ model_cache' =
          [model_cache EXCEPT
              !.usage_times = dict_set(@, loc[p].model_id, now),
              !.memory_sizes = IF cuda.is_available
                               THEN dict_set(@, loc[p].model_id,
                                             cuda.memory_allocated - loc[p].snap)
                               ELSE @,
              !.lock = None]
    /\ pc' = [pc EXCEPT ![p] = "idle"]
    /\ Return(p, [NoCall EXCEPT !.op = "put"])
    /\ UNCHANGED <<tasks, cuda, monitor, redis_vars>>

clear_acquire(p) ==
    /\ pc[p] = "idle"
    /\ lock_free(model_cache.lock)
    /\ model_cache' = [model_cache EXCEPT !.lock = p]
    /\ pc' = [pc EXCEPT ![p] = "clear_cache"]
    /\ loc' = [loc EXCEPT ![p] = [IdleLoc EXCEPT !.op = "clear"]]
    /\ UNCHANGED <<tasks, cuda, monitor, redis_vars, last>>

\* self.cache.clear() ...
clear_cache(p) ==
    /\ pc[p] = "clear_cache"
    /\ model_cache' = [model_cache EXCEPT !.cache = <<>>]
    /\ pc' = [pc EXCEPT ![p] = "clear_usage"]
    /\ UNCHANGED <<tasks, cuda, monitor, redis_vars, loc, last>>

\* ... self.usage_times.clear(); self.memory_sizes.clear(); gc.collect()
\* and empty_cache(); the lock is released.
clear_usage(p) ==
    /\ pc[p] = "clear_usage"
    /\ model_cache' = [model_cache EXCEPT !.usage_times = <<>>, !.memory_sizes = <<>>,
                                          !.lock = None]
    /\ cuda' = empty_cache(cuda)
    /\ pc' = [pc EXCEPT ![p] = "idle"]
    /\ Return(p, [NoCall EXCEPT !.op = "clear"])
    /\ UNCHANGED <<tasks, monitor, redis_vars>>

(***************************************************************************)
(* Spec: concurrent callers.  The guards written here bound the            *)
(* exploration; the actions are the code.                                  *)
(***************************************************************************)
\* The steps of an enqueue_job call of caller p after the call itself.
enqueue_job_steps(p) ==
    \/ check_rate_limit(p)
    \/ get_concurrent_jobs(p)
    \/ _get_total_queue_size(p)
    \/ enqueue_job_hset(p)
    \/ enqueue_job_expire(p)
    \/ enqueue_job_push(p)
    \/ increment_rate_limit(p)
    \/ enqueue_job_sadd(p)
    \/ enqueue_job_expire_user(p)

\* The steps of a dequeue_job call of caller p after the call itself.
dequeue_job_steps(p) ==
    \/ process_delayed_read(p)
    \/ process_delayed_exec(p)
    \/ brpop_pop(p)
    \/ brpop_timeout(p)
    \/ dequeue_job_hget(p)

\* The complete_job calls that have not counted themselves yet.
InFlightCompletions ==
    Cardinality({q \in Procs : loc[q].op = "complete_job" /\ pc[q] = "upd_hget"})

\* No caller is between two commands of a call: every caller is idle or
\* blocked in a BRPOP.  The specifications that follow many callers let the
\* clock advance at these instants.
Quiet == \A p \in Procs : pc[p] \in {"idle", "brpop"}
\* Somebody waits for the clock: a caller blocked in a BRPOP, or a delayed
\* job that is not due yet.
Waiting ==
    \/ \E p \in Procs : pc[p] = "brpop"
    \/ \E pr \in QueuePriorityNames : \E e \in delayed[pr] : e.score > now

Init == InitRedis /\ BytesClient /\ last = Unobserved

Next ==
    \/ now < MaxTime /\ Quiet /\ Waiting /\ Tick
    \/ \E p \in Procs, ty \in JobTypes, pl \in Payloads, pr \in InputPriorities, d \in Delays :
          /\ next_uuid + InFlightAdmissions <= MaxJobs
          /\ stats.queue_overflows < 1
          /\ enqueue_job(p, UserOf(p), ty, pl, pr, d)
    \/ \E p \in Procs : enqueue_job_steps(p)
    \/ \E p \in Procs, timeout \in Timeouts : dequeue_job(p, timeout)
    \/ \E p \in Procs : dequeue_job_steps(p)
    \/ \E p \in Procs : _update_job_status(p)
    \/ \E p \in Procs, j \in JobIds :
          /\ stats.jobs_processed + InFlightCompletions < MaxCompletions
          /\ complete_job(p, j)
    \/ \E p \in Procs : complete_job_set(p)

Spec == Init /\ [][Next]_vars

\* A client that admits jobs and a worker that takes and completes them,
\* with the clock free to advance between any two commands.
NextDelay ==
    \/ now < MaxTimeDelay /\ Tick
    \/ \E ty \in JobTypes, pl \in Payloads, pr \in InputPriorities, d \in Delays :
          /\ next_uuid <= MaxJobsDelay
          /\ enqueue_job(1, UserOf(1), ty, pl, pr, d)
    \/ enqueue_job_steps(1)
    \/ \E timeout \in Timeouts : dequeue_job(2, timeout)
    \/ dequeue_job_steps(2)
    \/ _update_job_status(2)
    \/ \E j \in DOMAIN store :
          stats.jobs_processed + InFlightCompletions < MaxCompletions /\ complete_job(2, j)
    \/ complete_job_set(2)

InitDelay ==
    /\ max_queue_size = default_max_queue_size
    /\ now = 0
    /\ dlq = <<>>
    /\ InitStores
    /\ BytesClient
    /\ last = Unobserved

SpecDelay == InitDelay /\ [][NextDelay]_vars

\* One caller at a time, with the history of calls and return values kept.
NextSeq ==
    \/ now < MaxTimeSeq /\ Quiet /\ Waiting /\ Tick
    \/ \E ty \in JobTypes, pl \in Payloads, pr \in InputPriorities, d \in Delays :
          /\ next_uuid <= MaxJobsSeq
          /\ stats.queue_overflows < 1
          /\ enqueue_job(1, UserOf(1), ty, pl, pr, d)
    \/ enqueue_job_steps(1)
    \/ \E timeout \in Timeouts : dequeue_job(1, timeout)
    \/ dequeue_job_steps(1)
    \/ _update_job_status(1)
    \/ \E j \in JobIds : stats.jobs_processed < MaxCompletions /\ complete_job(1, j)
    \/ complete_job_set(1)
    \/ \E j \in JobIds, e \in Errors, r \in BOOLEAN :
          StreakAfter(j, r) <= MaxFailReportsSeq /\ fail_job(1, j, e, r)
    \/ fail_job_commands(1)

\* The client answers in bytes (redis.from_url(url)) or in str
\* (decode_responses=True).
InitSeq ==
    /\ InitRedis
    /\ AnyClient
    /\ last = NoCall

SpecSeq == InitSeq /\ [][NextSeq]_vars

\* The entries of a list that was full at the start that later entries have
\* pushed out of it.
PushedOut(list) ==
    IF Len(list) < DLQ_CAP - MaxEntriesDLQ THEN 0
    ELSE LET earlier == Len(list) - Len(LaterEntries(list))
         IN IF earlier < DLQ_CAP THEN DLQ_CAP - earlier ELSE 0

\* The later entries that are in the list or in the picture of it that a
\* cleanup in flight is about to write back.
KnownLater ==
    Len(LaterEntries(dlq))
      + Cardinality({i \in 1..Len(loc[1].valid_entries) :
                        /\ loc[1].valid_entries[i] # EarlierEntry
                        /\ ~\E k \in 1..Len(dlq) : dlq[k] = loc[1].valid_entries[i]})

\* Callers of the dead-letter queue: workers reporting failed jobs and the
\* background cleanup, which is one task (caller 1 runs it between its own
\* reports), over a list that is empty or full at the start.
NextDLQ ==
    \/ \E p \in Procs, j \in 1..MaxJobsDLQ, ty \in JobTypes, pl \in Payloads, e \in Errors :
          /\ KnownLater + PushedOut(dlq)
                + Cardinality({q \in Procs : pc[q] = "dlq_lpush"}) < MaxEntriesDLQ
          /\ add_failed_job(p, NewQueueJob(j, UserOf(p), ty, pl, "NORMAL", 0, now), e)
    \/ \E p \in Procs : add_failed_job_lpush(p)
    \/ \E p \in Procs : add_failed_job_ltrim(p)
    \/ cleanup_old_entries(1)
    \/ cleanup_old_entries_read(1)
    \/ cleanup_old_entries_replace(1)

InitDLQStores ==
    /\ max_queue_size = default_max_queue_size
    /\ now = 0
    /\ dlq \in {<<>>, FilledDLQ(DLQ_CAP)}
    /\ InitStores
    /\ BytesClient

InitDLQ == InitDLQStores /\ last = Unobserved

SpecDLQ == InitDLQ /\ [][NextDLQ]_vars

\* The dead-letter queue with one caller at a time.
NextDLQSeq ==
    \/ now < MaxTimeDLQ /\ TickDLQ
    \/ \E j \in 1..MaxJobsDLQ, u \in Users, ty \in JobTypes, pl \in Payloads, e \in Errors :
          /\ KnownLater + PushedOut(dlq) < MaxEntriesDLQ
          /\ add_failed_job(1, NewQueueJob(j, u, ty, pl, "NORMAL", 0, now), e)
    \/ add_failed_job_lpush(1)
    \/ add_failed_job_ltrim(1)
    \/ cleanup_old_entries(1)
    \/ cleanup_old_entries_read(1)
    \/ cleanup_old_entries_replace(1)

InitDLQSeq == InitDLQStores /\ last = NoCall

SpecDLQSeq == InitDLQSeq /\ [][NextDLQSeq]_vars

\* One admission client, the manager built with a small or with the default
\* max_queue_size, the clock near the end of a calendar minute.
NextRate ==
    \/ now < MaxTimeRate /\ Tick
    \/ \E ty \in JobTypes, pl \in Payloads, d \in Delays :
          /\ next_uuid <= MaxJobsRate
          /\ d > 0 => next_uuid <= MaxDelayedRate
          /\ stats.queue_overflows < MaxOverflowsRate
          /\ enqueue_job(1, UserOf(1), ty, pl, "URGENT", d)
    \/ enqueue_job_steps(1)

InitRate ==
    /\ max_queue_size \in {MaxQueueSize, default_max_queue_size}
    /\ now = StartTimeRate
    /\ dlq = <<>>
    /\ InitStores
    /\ BytesClient
    /\ last = NoCall

SpecRate == InitRate /\ [][NextRate]_vars

\* One caller that admits jobs and takes them as a worker, the manager built with the default max_queue_size.
NextWork ==
    \/ now < MaxTimeWork /\ Quiet /\ Waiting /\ Tick
    \/ \E ty \in JobTypes, pl \in Payloads, pr \in WorkPriorities, d \in Delays :
          /\ next_uuid <= MaxJobsWork
          /\ d > 0 => next_uuid <= MaxDelayedWork
          /\ enqueue_job(1, UserOf(1), ty, pl, pr, d)
    \/ enqueue_job_steps(1)
    \/ \E timeout \in Timeouts : dequeue_job(1, timeout)
    \/ dequeue_job_steps(1)
    \/ _update_job_status(1)
    \/ \E j \in DOMAIN store : stats.jobs_processed < MaxCompletions /\ complete_job(1, j)
    \/ complete_job_set(1)
    \/ \E j \in JobIds : cancel(1, j)

InitWork ==
    /\ max_queue_size = default_max_queue_size
    /\ now = 0
    /\ dlq = <<>>
    /\ InitStores
    /\ BytesClient
    /\ last = NoCall

SpecWork == InitWork /\ [][NextWork]_vars

\* One caller, initialize(), the background tasks and shutdown().  The
\* event loop runs a task whose await is over, and shutdown() once the task
\* it awaits is done.  initialize() is called for the first time before
\* shutdown() is, never while a shutdown() call is under way, and a second
\* time by a manager that has admitted no job and admits none from then on,
\* with the clock standing still.
NextBg ==
    \/ now + ClockStepBg <= MaxTimeBg /\ Quiet /\ Len(tasks.all) <= 2 /\ TickBg
    \/ \E ty \in JobTypes, pl \in Payloads, pr \in {"NORMAL"}, d \in Delays :
          /\ next_uuid <= MaxJobsBg
          /\ Len(tasks.all) <= 2
          /\ enqueue_job(1, UserOf(1), ty, pl, pr, d)
    \/ enqueue_job_steps(1)
    \/ \E j \in DOMAIN store :
          /\ stats.jobs_processed < MaxCompletionsBg
          /\ Len(tasks.all) <= 2
          /\ complete_job(1, j)
    \/ _update_job_status(1)
    \/ complete_job_set(1)
    \/ /\ Len(tasks.all) < 2 * MaxInitializeBg
       /\ tasks.all # <<>> => (Quiet /\ next_uuid = 1)
       /\ tasks.shutdown \in {"none", "returned"}
       /\ initialize
    \/ \E i \in Tasks : task_start(i)
    \/ \E i \in Tasks : task_cancelled(i)
    \/ \E i \in CleanupTasks : cleanup_wake(i)
    \/ \E i \in CleanupTasks : _cleanup_expired_jobs(i)
    \/ \E i \in CleanupTasks : cleanup_dlq_read(i)
    \/ \E i \in CleanupTasks : cleanup_dlq_replace(i)
    \/ \E i \in MonitorTasks : monitor_wake(i)
    \/ \E i \in MonitorTasks : monitor_stats_read(i)
    \/ tasks.all # <<>> /\ shutdown
    \/ shutdown_cleanup_awaited
    \/ shutdown_monitor_awaited

InitBg ==
    /\ max_queue_size = default_max_queue_size
    /\ now = 0
    /\ dlq = <<>>
    /\ InitStores
    /\ BytesClient
    /\ last = Unobserved

SpecBg ==
    /\ InitBg
    /\ [][NextBg]_vars
    /\ WF_vars(\E i \in Tasks : task_cancelled(i))
    /\ WF_vars(ShutdownSteps)

\* A device of TotalMemory GiB with a GiB allocated and r reserved.
Device(a, r) ==
    [is_available |-> TRUE, memory_allocated |-> a, memory_reserved |-> r,
     total_memory |-> TotalMemory]

\* Threads that share one EnhancedModelCache, on a machine without an
\* accelerator and on one whose memory goes from nine tenths taken, which
\* is not above the threshold, to full and back while the threads run.
CacheLevels == {(TotalMemory * 9) \div 10, TotalMemory}
CudaStates == {NoCuda} \cup {Device(a, a) : a \in CacheLevels}

NextCache ==
    \/ now < MaxTimeCache /\ Tick
    \/ \E a, r \in CacheLevels : work_allocates(a, r)
    \/ \E p \in Procs, k \in ModelIds : get_acquire(p, k)
    \/ \E p \in Procs : get_body(p)
    \/ \E p \in Procs, k \in ModelIds : put_acquire(p, k)
    \/ \E p \in Procs : put_ensure(p)
    \/ \E p \in Procs : evict_del_cache(p)
    \/ \E p \in Procs : evict_del_usage(p)
    \/ \E p \in Procs : put_force_cleanup(p)
    \/ \E p \in Procs : put_set_cache(p)
    \/ \E p \in Procs : put_set_usage(p)
    \/ \E p \in Procs : clear_acquire(p)
    \/ \E p \in Procs : clear_cache(p)
    \/ \E p \in Procs : clear_usage(p)

InitCache ==
    /\ max_queue_size = default_max_queue_size
    /\ now = 0
    /\ dlq = <<>>
    /\ handed = NotRecorded
    /\ InitManager
    /\ BytesClient
    /\ last = Unobserved
    /\ tasks = NoTasks
    /\ cuda \in CudaStates
    /\ monitor = NewMonitor
    /\ model_cache \in {NewModelCache(n) : n \in 1..default_max_models}

SpecCache == InitCache /\ [][NextCache]_vars

\* Two coroutines that use one GPUMemoryMonitor, on a machine without an
\* accelerator and on one with an accelerator.
MemoryLevels == {0, 23, 49, TotalMemory}

NextMonitor ==
    \/ \E p \in Procs : get_memory_stats_call(p)
    \/ \E p \in Procs : check_memory_pressure_call(p)
    \/ \E p \in Procs : force_cleanup(p)
    \/ \E p \in Procs : monitor_memory_enter(p)
    \/ \E a, r \in MemoryLevels : work_allocates(a, r)
    \/ \E p \in Procs, raised \in BOOLEAN : monitor_memory_exit(p, raised)

InitMonitor ==
    /\ max_queue_size = default_max_queue_size
    /\ now = 0
    /\ dlq = <<>>
    /\ handed = NotRecorded
    /\ InitManager
    /\ BytesClient
    /\ last = NoCall
    /\ tasks = NoTasks
    /\ cuda \in {NoCuda, Device(0, 0)}
    /\ monitor = NewMonitor
    /\ model_cache = NewModelCache(default_max_models)

SpecMonitor == InitMonitor /\ [][NextMonitor]_vars

\* Two workers and the jobs they admit, with the history of the ids that
\* dequeue_job takes from the active lists.
NextHand ==
    \/ now < MaxTime /\ Quiet /\ Waiting /\ Tick
    \/ \E p \in Procs, ty \in JobTypes, pl \in Payloads, pr \in {"URGENT"}, d \in Delays :
          /\ next_uuid + InFlightAdmissions <= MaxJobsHand
          /\ enqueue_job(p, UserOf(p), ty, pl, pr, d)
    \/ \E p \in Procs : enqueue_job_steps(p)
    \/ \E p \in Procs, timeout \in Timeouts : dequeue_job(p, timeout)
    \/ \E p \in Procs : dequeue_job_steps(p)
    \/ \E p \in Procs : _update_job_status(p)
    \/ \E p \in Procs, j \in DOMAIN store :
          /\ stats.jobs_processed + InFlightCompletions < MaxCompletions
          /\ complete_job(p, j)
    \/ \E p \in Procs : complete_job_set(p)

InitHand ==
    /\ max_queue_size = default_max_queue_size
    /\ now = 0
    /\ dlq = <<>>
    /\ handed = <<>>
    /\ InitPipeline
    /\ InitManager
    /\ AnyClient
    /\ last = Unobserved

SpecHand == InitHand /\ [][NextHand]_vars

\* One caller that admits a job, completes it and takes jobs as a worker,
\* while the cleanup task sweeps and the records' TTLs run out.
NextSweep ==
    \/ now < MaxTime /\ Tick
    \/ now + ClockStepBg <= MaxTimeBg /\ TickBg
    \/ \E ty \in JobTypes, pl \in Payloads, pr \in {"URGENT"}, d \in Delays :
          /\ next_uuid <= MaxJobsBg
          /\ enqueue_job(1, UserOf(1), ty, pl, pr, d)
    \/ enqueue_job_steps(1)
    \/ \E j \in DOMAIN store : stats.jobs_processed < MaxCompletionsBg /\ complete_job(1, j)
    \/ complete_job_set(1)
    \/ \E timeout \in Timeouts : dequeue_job(1, timeout)
    \/ dequeue_job_steps(1)
    \/ _update_job_status(1)
    \/ Len(tasks.all) < 2 * MaxInitializeSweep /\ initialize
    \/ \E i \in CleanupTasks : task_start(i)
    \/ \E i \in CleanupTasks : cleanup_wake(i)
    \/ \E i \in CleanupTasks : _cleanup_expired_jobs(i)
    \/ \E i \in CleanupTasks : cleanup_dlq_read(i)
    \/ \E i \in CleanupTasks : cleanup_dlq_replace(i)

InitSweep ==
    /\ max_queue_size = default_max_queue_size
    /\ now = 0
    /\ dlq = <<>>
    /\ InitStores
    /\ AnyClient
    /\ last = Unobserved

SpecSweep == InitSweep /\ [][NextSweep]_vars

\* Several callers that admit jobs for one and the same user: one call at a
\* time until the user is one admission short of requests_per_minute, and
\* overlapping calls from then on.
NextShared ==
    \/ now < MaxTimeShared /\ Quiet /\ Tick
    \/ \E p \in Procs, ty \in JobTypes, pl \in Payloads :
          /\ next_uuid + InFlightAdmissions <= MaxJobsShared
          /\ Quiet \/ next_uuid >= requests_per_minute
          /\ enqueue_job(p, UserOf(1), ty, pl, "URGENT", 0)
    \/ \E p \in Procs : enqueue_job_steps(p)

InitShared ==
    /\ max_queue_size = default_max_queue_size
    /\ now = 0
    /\ dlq = <<>>
    /\ InitStores
    /\ BytesClient
    /\ last = Unobserved

SpecShared == InitShared /\ [][NextShared]_vars

(***************************************************************************)
(* Vocabulary of the properties.                                           *)
(***************************************************************************)
\* The number of ids in all active lists and delayed sets at one instant.
RECURSIVE SumSizes(_, _, _)
SumSizes(q, d, i) ==
    IF i > Len(queue_keys) THEN 0
    ELSE Len(q[queue_keys[i]]) + Cardinality(d[queue_keys[i]]) + SumSizes(q, d, i + 1)
TotalQueued(q, d) == SumSizes(q, d, 1)
\* Occurrences of id j in the active list of priority pr.
Occurrences(j, pr) == Cardinality({i \in 1..Len(queue[pr]) : queue[pr][i] = j})
InLists(q, j) == \E pr \in QueuePriorityNames : \E i \in 1..Len(q[pr]) : q[pr][i] = j
InSets(d, j) == \E pr \in QueuePriorityNames : \E e \in d[pr] : e.id = j
InActive(j) == InLists(queue, j)
InDelayed(j, pr) == \E e \in delayed[pr] : e.id = j
InAnyDelayed(j) == InSets(delayed, j)
\* The priority a stored record was written with.
PriorityOf(rec) ==
    CHOOSE pr \in QueuePriorityNames : json_default_priority(pr) = rec.data.priority
RecordPriority(j) == PriorityOf(store[j])
\* The due time of a stored record (None when it was admitted without delay).
RecordDue(j) == optional_date(store[j].data.scheduled_at)
HigherListsEmpty(i) == \A k \in 1..(i - 1) : queue[DequeueOrder[k]] = <<>>
\* The step with which caller p returns from a call of op.
Returns(p, op) == pc[p] # "idle" /\ pc'[p] = "idle" /\ loc[p].op = op
\* The job of an enqueue_job call in flight has its record and is not yet
\* in a list or a set.
BeingStored(j) ==
    \E p \in Procs : loc[p].job_id = j /\ pc[p] \in {"enq_hset", "enq_expire", "enq_push"}

(***************************************************************************)
(* C1: whenever dequeue_job takes a job J from its active list (the pop    *)
(* after which it returns J), no active list of a priority strictly higher *)
(* than J's is non-empty, under every interleaving with enqueue_job calls  *)
(* of other callers.  (Stated for the pops made while the queues are       *)
(* within their capacity.)                                                 *)
(***************************************************************************)
C1_PopRespectsPriority ==
    [][\A p \in Procs :
          (brpop_pop(p) /\ TotalQueued(queue, delayed) <= max_queue_size)
              => HigherListsEmpty(loc[p].idx)]_vars

(***************************************************************************)
(* C2: in every reachable state the number of job ids in all active lists  *)
(* plus all delayed sets is at most max_queue_size.                        *)
(***************************************************************************)
C2_NeverOverCapacity == TotalQueued(queue, delayed) <= max_queue_size

(***************************************************************************)
(* C3: after the failure report number max_retries + 1 (the 4th) with      *)
(* retry=true for one unit of work, the unit's last job is stored FAILED   *)
(* and exactly one dead-letter entry exists for the unit, with             *)
(* retry_count = 4.                                                        *)
(***************************************************************************)
UnitJobs(u) == {j \in DOMAIN unit_of : unit_of[j] = u}
LastJobOf(u) == CHOOSE j \in UnitJobs(u) : \A k \in UnitJobs(u) : k <= j
UnitDeadLetters(u) == {i \in 1..Len(dlq) : dlq[i].job_id \in UnitJobs(u)}
C3_FourthFailureIsFinal ==
    (last.op = "fail_job" /\ last.streak >= default_max_retries + 1) =>
        LET u == unit_of[last.arg_job]
        IN /\ store[LastJobOf(u)].status = JobStatusValue("FAILED")
           /\ Cardinality(UnitDeadLetters(u)) = 1
           /\ \A i \in UnitDeadLetters(u) : dlq[i].retry_count = default_max_retries + 1

(***************************************************************************)
(* C5: with any number of workers in dequeue_job, a job id never occurs    *)
(* twice in the active lists, is never in an active list and a delayed    *)
(* set at once, and is in no list or set while its status is PROCESSING    *)
(* (each live job is in exactly one of its three situations).              *)
(***************************************************************************)
TotalOccurrences(j) ==
    Occurrences(j, "LOW") + Occurrences(j, "NORMAL") + Occurrences(j, "HIGH")
      + Occurrences(j, "URGENT")
C5_AtMostOnePlace ==
    \A j \in DOMAIN store :
        /\ TotalOccurrences(j) <= 1
        /\ ~(InActive(j) /\ InAnyDelayed(j))
        /\ store[j].status = JobStatusValue("PROCESSING") =>
              (~InActive(j) /\ ~InAnyDelayed(j))

(***************************************************************************)
(* C6: a job admitted with delay_seconds = d > 0 is, from the moment       *)
(* enqueue_job has queued it until its due time (admission time + d), in   *)
(* the delayed set of its priority and in no active list; and no           *)
(* dequeue_job call that started before the due time returns it.           *)
(***************************************************************************)
DelayedUntilDue ==
    \A j \in DOMAIN store :
        (RecordDue(j) # None /\ now < RecordDue(j) /\ ~BeingStored(j)) =>
            (InDelayed(j, RecordPriority(j)) /\ ~InActive(j))
\* The step with which dequeue_job call p returns job j.
ReturnsJob(p, j) ==
    /\ Returns(p, "dequeue_job")
    /\ loc[p].job # <<>>
    /\ loc[p].job[1].job_id = j
C6_NotBeforeDue ==
    /\ []DelayedUntilDue
    /\ [][\A p \in Procs, j \in DOMAIN store :
            (ReturnsJob(p, j) /\ RecordDue(j) # None) => loc[p].snap >= RecordDue(j)]_vars
\* A delayed job is not yet due and a dequeue_job call that started after
\* its admission has gone through _process_delayed_jobs.
C6_Witness ==
    \E j \in DOMAIN store, p \in Procs :
        /\ RecordDue(j) # None /\ now < RecordDue(j)
        /\ pc[p] = "brpop"
        /\ loc[p].snap >= store[j].data.created_at.n
        /\ InDelayed(j, RecordPriority(j))

(***************************************************************************)
(* C7: a dequeue_job call that starts when the only queued job is a        *)
(* delayed job whose due time has passed returns that job.                 *)
(***************************************************************************)
C7_DueJobIsReturned ==
    (last.op = "dequeue_job" /\ last.only_due # None) => last.job = last.only_due

(***************************************************************************)
(* C8: fail_job(job_id, error, retry=true) on an existing job whose        *)
(* incremented retry_count is at most max_retries puts a new job (another  *)
(* job_id, same user_id, job_type, payload and priority) in the delayed    *)
(* set of that priority, makes the original CANCELLED and writes no        *)
(* dead-letter entry.  (db is the database as the call found it.)          *)
(***************************************************************************)
SameWork(a, b) ==
    /\ a.user_id = b.user_id /\ a.job_type = b.job_type
    /\ a.payload = b.payload /\ a.priority = b.priority
\* The record of job j existed when the call began, with retries left.
HadRetriesLeft(db, j) ==
    /\ hexists(db.store, j, db.now)
    /\ db.store[j].data.retry_count + 1 <= db.store[j].data.max_retries
C8_RetryReenqueues ==
    [][\A p \in Procs :
          (/\ Returns(p, "fail_job")
           /\ loc[p].retry
           /\ HadRetriesLeft(loc[p].db, loc[p].arg_job)) =>
              LET db == loc[p].db
                  j == loc[p].arg_job
              IN /\ next_uuid' = db.next_uuid + 1
                 /\ db.next_uuid \in DOMAIN store'
                 /\ SameWork(store'[db.next_uuid].data, db.store[j].data)
                 /\ \E e2 \in delayed'[PriorityOf(db.store[j])] : e2.id = db.next_uuid
                 /\ store'[j].status = JobStatusValue("CANCELLED")
                 /\ dlq' = db.dlq]_vars

(***************************************************************************)
(* C9: fail_job(job_id, error, retry=false) on an existing job stores      *)
(* status FAILED with error_message = error, appends exactly one           *)
(* dead-letter entry with that job's job_id, user_id, job_type and         *)
(* payload, increments jobs_failed by one and enqueues no new job.         *)
(***************************************************************************)
C9_PermanentFailureRecorded ==
    [][\A p \in Procs :
          (/\ Returns(p, "fail_job")
           /\ ~loc[p].retry
           /\ hexists(loc[p].db.store, loc[p].arg_job, loc[p].db.now)) =>
              LET db == loc[p].db
                  j == loc[p].arg_job
              IN /\ store'[j].status = JobStatusValue("FAILED")
                 /\ store'[j].data.error_message = JStr(loc[p].error)
                 /\ Len(dlq') = Len(db.dlq) + 1
                 /\ dlq'[1].job_id = j
                 /\ dlq'[1].user_id = db.store[j].data.user_id
                 /\ dlq'[1].job_type = db.store[j].data.job_type
                 /\ dlq'[1].original_payload = db.store[j].data.payload
                 /\ stats'.jobs_failed = db.stats.jobs_failed + 1
                 /\ next_uuid' = db.next_uuid /\ queue' = db.queue
                 /\ delayed' = db.delayed]_vars

(***************************************************************************)
(* C10: every job record in the store is read back by _get_job_data as a   *)
(* QueueJob, and that QueueJob has the field values that were written.     *)
(***************************************************************************)
C10_RoundTrip ==
    \A j \in DOMAIN store :
        hexists(store, j, now) =>
            /\ _get_job_data(store, j, now) # <<>>
            /\ json_dumps_job(_get_job_data(store, j, now)[1]) = store[j].data

(***************************************************************************)
(* C11: with one caller at a time, once requests_per_minute (10) of a      *)
(* user's enqueue_job calls were admitted and counted within the current   *)
(* calendar minute, that user's next enqueue_job call in that minute (it   *)
(* is made, and its first check is answered, in that minute) is rejected   *)
(* with the per-minute reason and creates no job.                          *)
(***************************************************************************)
\* The jobs admitted for user u in the calendar minute of instant t.  With
\* one caller at a time, a call that starts in that minute finds each of
\* them counted in that minute too (between its creation and the start).
AdmittedThisMinute(u, t) ==
    {j \in DOMAIN store : store[j].user_id = u /\ store[j].data.created_at.n \div 60 = t \div 60}
C11_EleventhInMinuteRejected ==
    [][(/\ check_rate_limit(1)
        /\ loc[1].op = "enqueue_job" /\ loc[1].idx = 1
        /\ now \div 60 = loc[1].snap \div 60
        /\ Cardinality(AdmittedThisMinute(loc[1].user_id, loc[1].snap)) >= requests_per_minute) =>
           (/\ pc'[1] = "idle"
            /\ last'.op = "enqueue_job" /\ ~last'.ok /\ last'.job = None
            /\ last'.msg = PerMinuteReason
            /\ next_uuid' = loc[1].db.next_uuid /\ store' = loc[1].db.store
            /\ queue' = loc[1].db.queue /\ delayed' = loc[1].db.delayed)]_vars
\* The call after ten admissions in the minute has been rejected.
C11_Witness ==
    /\ last.op = "enqueue_job" /\ ~last.ok /\ last.msg = PerMinuteReason
    /\ Cardinality(AdmittedThisMinute(UserOf(1), now)) = requests_per_minute
    /\ next_uuid = requests_per_minute + 1

(***************************************************************************)
(* C12: when concurrent_jobs (3) or more of a user's jobs are being        *)
(* processed (taken by dequeue_job, which marks them PROCESSING, and not   *)
(* yet completed), enqueue_job for that user is rejected with the          *)
(* too-many-concurrent-jobs reason.                                        *)
(***************************************************************************)
\* Job j was taken from its list by a dequeue_job call and has no result yet.
TakenByWorker(j) ==
    /\ j \in DOMAIN store /\ ~BeingStored(j)
    /\ ~InActive(j) /\ ~InAnyDelayed(j) /\ ~result_exists(results, j, now)
BeingProcessed(u) ==
    {j \in DOMAIN store :
        /\ store[j].user_id = u
        /\ (TakenByWorker(j) \/ store[j].status = JobStatusValue("PROCESSING"))}
C12_ConcurrentJobsLimited ==
    [][(/\ get_concurrent_jobs(1)
        /\ loc[1].op = "enqueue_job"
        /\ Cardinality(BeingProcessed(loc[1].user_id)) >= concurrent_jobs) =>
           (/\ pc'[1] = "idle"
            /\ last'.op = "enqueue_job" /\ ~last'.ok
            /\ last'.msg = ConcurrentReason)]_vars

(***************************************************************************)
(* C13: an enqueue_job call that is rejected (rate limit exceeded or queue *)
(* full) returns (False, reason, None) and leaves the job store, the       *)
(* active lists, the delayed sets, the per-user job set and the rate-limit *)
(* counters as it found them; of the statistics only queue_overflows may   *)
(* change.  The admission checks never modify a counter.                   *)
(***************************************************************************)
RejectionReasons ==
    {PerMinuteReason, PerHourReason, PerDayReason, ConcurrentReason, QueueFullReason}
AdmissionCheck(p) ==
    check_rate_limit(p) \/ get_concurrent_jobs(p) \/ _get_total_queue_size(p)
C13_RejectionChangesNothing ==
    [][/\ AdmissionCheck(1) => counters' = counters
       /\ (Returns(1, "enqueue_job") /\ ~last'.ok) =>
             (/\ last'.op = "enqueue_job" /\ last'.job = None
              /\ last'.msg \in RejectionReasons
              /\ store' = loc[1].db.store /\ queue' = loc[1].db.queue
              /\ delayed' = loc[1].db.delayed /\ user_jobs' = loc[1].db.user_jobs
              /\ counters' = loc[1].db.counters /\ next_uuid' = loc[1].db.next_uuid
              /\ stats' = [loc[1].db.stats EXCEPT
                              !.queue_overflows = stats'.queue_overflows])]_vars
\* A call has been rejected because the queues were full.
C13_Witness ==
    /\ last.op = "enqueue_job" /\ ~last.ok /\ last.msg = QueueFullReason
    /\ stats.queue_overflows = 1
    /\ TotalQueued(queue, delayed) = max_queue_size
    /\ counters # <<>>

(***************************************************************************)
(* C14: within one priority the active list is a stack: when the only      *)
(* queued jobs are A and B, admitted in that order without delay at the    *)
(* same priority, dequeue_job takes B first (newest first).                *)
(***************************************************************************)
\* The active list of priority pr holds exactly two jobs admitted without
\* delay, and nothing else is queued.
TwoUndelayedAlone(pr) ==
    /\ Len(queue[pr]) = 2 /\ queue[pr][1] # queue[pr][2]
    /\ TotalQueued(queue, delayed) = 2
    /\ \A i \in 1..2 : queue[pr][i] \in DOMAIN store /\ RecordDue(queue[pr][i]) = None
\* The job admitted last among those of a list (job ids are handed out in
\* admission order).
Newest(list) == CHOOSE j \in SeqToSet(list) : \A k \in SeqToSet(list) : k <= j
C14_NewestFirst ==
    [][(brpop_pop(1) /\ TwoUndelayedAlone(DequeueOrder[loc[1].idx])) =>
          rpop_value(queue[DequeueOrder[loc[1].idx]]) = Newest(queue[DequeueOrder[loc[1].idx]])]_vars

(***************************************************************************)
(* C15: with one caller at a time, a dequeue_job call made when some       *)
(* active list is non-empty returns a job, taken from the highest-priority *)
(* non-empty active list: the job that was at the tail of that list when   *)
(* the call started, or a job of at least that priority.                   *)
(***************************************************************************)
C15_ReturnsFromHighestList ==
    (last.op = "dequeue_job" /\ last.active_first # None) =>
        /\ last.ok /\ last.job # None
        /\ QueuePriorityValue(RecordPriority(last.job))
              >= QueuePriorityValue(RecordPriority(last.active_first))

(***************************************************************************)
(* C16: the transition QUEUED -> PROCESSING happens at dequeue: a          *)
(* dequeue_job call that takes a job from a list returns a job it took,    *)
(* with status PROCESSING and a non-null started_at, in the record handed  *)
(* to the worker and in the stored record.                                 *)
(***************************************************************************)
C16_DequeuedIsProcessing ==
    [][(Returns(1, "dequeue_job") /\ loc[1].popped # <<>>) =>
          /\ last'.op = "dequeue_job" /\ last'.ok
          /\ last'.job \in SeqToSet(loc[1].popped)
          /\ last'.status = "PROCESSING" /\ last'.started_at # None
          /\ store'[last'.job].status = JobStatusValue("PROCESSING")
          /\ store'[last'.job].data.started_at # JNull]_vars

(***************************************************************************)
(* C17: complete_job(job_id, result) on a job that is being processed      *)
(* stores status COMPLETED and completed_at, stores the result under the   *)
(* job's result key, increments jobs_processed by one, removes the id from *)
(* its user's job set and changes no active list, delayed set or           *)
(* dead-letter entry.  (db is the database as the call found it.)          *)
(***************************************************************************)
WasBeingProcessed(db, j) ==
    /\ j \in DOMAIN db.store
    /\ \/ db.store[j].status = JobStatusValue("PROCESSING")
       \/ /\ ~InLists(db.queue, j) /\ ~InSets(db.delayed, j)
          /\ ~result_exists(db.results, j, db.now)
C17_CompleteJobEffects ==
    [][(Returns(1, "complete_job") /\ WasBeingProcessed(loc[1].db, loc[1].arg_job)) =>
          LET db == loc[1].db
              j == loc[1].arg_job
          IN /\ store'[j].status = JobStatusValue("COMPLETED")
             /\ store'[j].data.completed_at # JNull
             /\ result_exists(results', j, now)
             /\ stats'.jobs_processed = db.stats.jobs_processed + 1
             /\ j \notin smembers(user_jobs', db.store[j].user_id, now)
             /\ queue' = db.queue /\ delayed' = db.delayed /\ dlq' = db.dlq]_vars

(***************************************************************************)
(* C18: cleanup_old_entries is atomic with respect to concurrent           *)
(* add_failed_job calls: the step with which a cleanup replaces the list   *)
(* loses no entry that is within the retention window, so an entry added   *)
(* while the cleanup was in progress is still in the list afterwards.      *)
(***************************************************************************)
Contains(list, e) == \E k \in 1..Len(list) : list[k] = e
C18_CleanupLosesNoEntry ==
    [][\A p \in Procs :
          cleanup_old_entries_replace(p) =>
              /\ \A i \in 1..Len(dlq) :
                    dlq[i].failed_at.n > cutoff_date(now) => Contains(dlq', dlq[i])
              /\ Len(dlq') >= Len(valid_entries(dlq, cutoff_date(now)))]_vars

(***************************************************************************)
(* C19: in every reachable state, with any number of workers calling       *)
(* add_failed_job, the dead-letter list holds at most DLQ_CAP (1000)       *)
(* entries.                                                                *)
(***************************************************************************)
C19_DLQWithinCap == Len(dlq) <= DLQ_CAP

(***************************************************************************)
(* C20: after any sequence of add_failed_job and cleanup_old_entries calls *)
(* the dead-letter list is ordered most-recent-first, and get_failed_jobs  *)
(* returns the entries in that order.                                      *)
(***************************************************************************)
MostRecentFirst(list) ==
    \A i \in 1..(Len(list) - 1) : list[i].failed_at.n >= list[i + 1].failed_at.n
C20_MostRecentFirst ==
    pc[1] = "idle" =>
        /\ MostRecentFirst(dlq)
        /\ MostRecentFirst(get_failed_jobs(dlq, NoneStr, default_limit))

(***************************************************************************)
(* C21: the queue manager offers cancel(job_id): on a job in QUEUED or     *)
(* PENDING it returns true, sets the status to CANCELLED and removes the   *)
(* job from the lists and sets dequeue_job takes jobs from.                *)
(***************************************************************************)
C21_CancelQueuedJob ==
    [][\A j \in JobIds :
          (/\ cancel(1, j)
           /\ j \in DOMAIN store
           /\ store[j].status \in {JobStatusValue("QUEUED"), JobStatusValue("PENDING")}) =>
              (/\ last'.op = "cancel" /\ last'.ok
               /\ store'[j].status = JobStatusValue("CANCELLED")
               /\ j \notin UNION {SeqToSet(queue'[pr]) : pr \in QueuePriorityNames}
               /\ \A pr \in QueuePriorityNames : \A e \in delayed'[pr] : e.id # j)]_vars

(***************************************************************************)
(* C22.  After initialize(), a shutdown() issued at any point of the two   *)
(* background loops terminates; when it returns, the cleanup task and the  *)
(* monitor task the manager holds are finished, and a finished task takes  *)
(* no further step, on the store or elsewhere.  Only the cancellation is   *)
(* swallowed: a loop ends on nothing but a cancellation that was asked     *)
(* for, and an error that breaks off a cleanup cycle is written to the log *)
(* and leaves the loop running.                                            *)
(***************************************************************************)
ShutdownCalled == tasks.shutdown \notin {"none", "returned"}
ShutdownReturned == tasks.shutdown = "returned"
\* This step is the return of a shutdown() call.
ShutdownReturns ==
    /\ shutdown \/ shutdown_cleanup_awaited \/ shutdown_monitor_awaited
    /\ tasks'.shutdown = "returned"
\* The tasks that the two fields of manager state t name are finished.
HeldTasksFinished(t) ==
    \A i \in {t._cleanup_task, t._monitor_task} \ {None} : t.all[i].pc = "finished"
\* Where a cleanup cycle is before it replaces the dead-letter list: a step
\* from there to the sleep is an exception caught by "except Exception".
UnfinishedCycle == {"scan", "hget", "del_key", "del_result", "del_invalid", "dlq_read"}
C22_ShutdownTerminates ==
    /\ ShutdownCalled ~> ShutdownReturned
    /\ [][ShutdownReturns => HeldTasksFinished(tasks')]_vars
    /\ [][\A i \in Tasks : done(i) => ~(TaskSteps(i) \/ task_cancelled(i))]_vars
    /\ [][\A i \in Tasks :
             (~done(i) /\ tasks'.all[i].pc = "finished") => tasks.all[i].must_cancel]_vars
    /\ [][\A i \in CleanupTasks :
             (tasks.all[i].pc \in UnfinishedCycle /\ tasks'.all[i].pc = "sleep") =>
                 tasks'.all[i].logged]_vars

\* shutdown() has returned after cancelling the cleanup task in the middle of
\* a sweep, with keys still to visit, in a loop that had logged an error of
\* an earlier cycle and gone on, and the monitor task in the middle of
\* computing the statistics.
C22_Witness ==
    /\ ShutdownReturned
    /\ tasks._cleanup_task # None /\ tasks._monitor_task # None
    /\ HeldTasksFinished(tasks)
    /\ tasks.all[tasks._cleanup_task].pending # {}
    /\ tasks.all[tasks._cleanup_task].logged
    /\ tasks.all[tasks._monitor_task].idx > 1

(***************************************************************************)
(* C23.  A put of a new key into a cache that holds max_models entries,    *)
(* which finds the memory pressure not high, evicts exactly one entry, one *)
(* whose last access is the oldest, and keeps the others.                  *)
(***************************************************************************)
\* The put has tested the memory pressure and has found it high.
FoundPressure(p) == loc[p].pressure
KeySet(d) == {d[i].k : i \in 1..Len(d)}
ValueOf(d, k) == (CHOOSE e \in SeqToSet(d) : e.k = k).v
PutOfNewKeyIntoFullCache(p) ==
    /\ loc[p].op = "put"
    /\ Len(loc[p].before) = model_cache.max_models
    /\ ~dict_has(loc[p].before, loc[p].model_id)
    /\ ~FoundPressure(p)
C23_EvictsLeastRecentlyUsed ==
    [][\A p \in Procs :
          (put_set_usage(p) /\ PutOfNewKeyIntoFullCache(p)) =>
              \E e \in KeySet(loc[p].before) :
                  /\ \A k \in KeySet(loc[p].before) :
                        ValueOf(loc[p].before, e) <= ValueOf(loc[p].before, k)
                  /\ KeySet(model_cache'.cache) =
                        (KeySet(loc[p].before) \ {e}) \cup {loc[p].model_id}
                  /\ KeySet(model_cache'.usage_times) = KeySet(model_cache'.cache)]_vars

\* put A, put B, get A, put C with max_models = 2: A was inserted first and
\* used last, B has gone and A is kept, also when the memory pressure has
\* become high since put C tested it.
C23_Witness ==
    \E p \in Procs :
        /\ pc[p] = "put_set_usage"
        /\ PutOfNewKeyIntoFullCache(p)
        /\ check_memory_pressure(cuda)
        /\ loc[p].model_id = "C"
        /\ loc[p].before = <<[k |-> "A", v |-> 2], [k |-> "B", v |-> 1]>>
        /\ dict_keys(model_cache.cache) = <<"A", "C">>

(***************************************************************************)
(* C24.  While the memory pressure is never high the cache never holds     *)
(* more than max_models entries.                                           *)
(***************************************************************************)
PressureHigh == check_memory_pressure(cuda)
C24_WithinMaxModels ==
    [](~PressureHigh) => [](Len(model_cache.cache) <= model_cache.max_models)

\* A put into a full cache has made room and has inserted its model.
C24_Witness ==
    \E p \in Procs :
        /\ pc[p] = "put_set_usage"
        /\ PutOfNewKeyIntoFullCache(p)
        /\ Len(model_cache.cache) = model_cache.max_models

(***************************************************************************)
(* C25.  At most one thread is inside get, put or clear, and a thread that *)
(* enters finds no entry half evicted or half inserted: the three dicts    *)
(* agree on their keys.                                                    *)
(***************************************************************************)
Inside(p) == pc[p] # "idle"
JustEntered(p) == pc[p] \in {"get_body", "put_ensure", "clear_cache"} /\ loc[p].to_evict = <<>>
DictsAgree ==
    /\ KeySet(model_cache.usage_times) = KeySet(model_cache.cache)
    /\ KeySet(model_cache.memory_sizes) \subseteq KeySet(model_cache.cache)
C25_Serialized ==
    /\ Cardinality({p \in Procs : Inside(p)}) <= 1
    /\ \A p \in Procs : JustEntered(p) => DictsAgree

\* A thread is in the middle of an eviction, the model gone from the cache
\* and its usage time still there, and no other thread is inside.
C25_Witness ==
    \E p \in Procs :
        /\ pc[p] = "evict_del_usage"
        /\ ~DictsAgree
        /\ \A q \in Procs \ {p} : ~Inside(q)

(***************************************************************************)
(* C26.  Without an accelerator every operation of the monitor is a no-op: *)
(* the statistics are zero, the pressure is false, and force_cleanup and   *)
(* monitor_memory raise no error of their own and leave the monitor as it  *)
(* was.                                                                    *)
(***************************************************************************)
MonitorCallReturns ==
    \E p \in Procs :
        \/ get_memory_stats_call(p)
        \/ check_memory_pressure_call(p)
        \/ force_cleanup(p)
        \/ \E raised \in BOOLEAN : monitor_memory_exit(p, raised)
C26_NoAcceleratorNoOps ==
    [][(~cuda.is_available /\ MonitorCallReturns) =>
          /\ monitor' = monitor
          /\ last'.msg \in {"", "WorkError"}
          /\ last'.op = "get_memory_stats" => \A k \in DOMAIN last'.value : last'.value[k] = 0
          /\ last'.op = "check_memory_pressure" => last'.value = FALSE]_vars

(***************************************************************************)
(* C27.  monitor_memory updates the peak when the work returns and when it *)
(* raises, the work's exception reaches the caller, and peak_memory never  *)
(* decreases.                                                              *)
(***************************************************************************)
C27_FinalizesOnEveryExit ==
    /\ [][\A p \in Procs, raised \in BOOLEAN :
             (monitor_memory_exit(p, raised) /\ cuda.is_available) =>
                 /\ monitor'.peak_memory >= cuda.memory_allocated
                 /\ monitor'.peak_memory \in {monitor.peak_memory, cuda.memory_allocated}
                 /\ raised <=> last'.msg = "WorkError"]_vars
    /\ [][monitor'.peak_memory >= monitor.peak_memory]_vars

\* A scope whose work raised has returned: the peak was measured, and the
\* memory allocated now is below it.
C27_Witness ==
    /\ cuda.is_available
    /\ last.op = "monitor_memory"
    /\ last.msg = "WorkError"
    /\ monitor.peak_memory > cuda.memory_allocated
    /\ cuda.memory_allocated > 0

(***************************************************************************)
(* C28.  With several workers in dequeue_job, no job id is handed out      *)
(* twice: every admitted id is taken from the active lists by dequeue_job  *)
(* at most once over the whole run, also when it was promoted from a       *)
(* delayed set.                                                            *)
(***************************************************************************)
C28_HandedAtMostOnce ==
    \A i, j \in 1..Len(handed) : i # j => handed[i] # handed[j]

(***************************************************************************)
(* C30.  Every job id in an active list or a delayed set has a record that *)
(* _get_job_data can read, whatever the sweep and the TTLs have done, so   *)
(* that an id that dequeue_job pops is never dropped: the read that        *)
(* follows the pop finds the job.                                          *)
(***************************************************************************)
Readable(j) == _get_job_data(store, j, now) # <<>>
C30_QueuedIdsReadable ==
    /\ [](\A j \in (ActiveIds \cup DelayedIds) : Readable(j))
    /\ [][\A p \in Procs : dequeue_job_hget(p) => pc'[p] = "upd_hget"]_vars

(***************************************************************************)
(* C31.  Whatever the interleaving of one user's concurrent enqueue_job    *)
(* calls, no more than requests_per_minute of the user's jobs are admitted *)
(* within one minute window.                                               *)
(***************************************************************************)
C31_MinuteLimitUnderConcurrency ==
    \A u \in Users : Cardinality(AdmittedThisMinute(u, now)) <= requests_per_minute

(***************************************************************************)
(* C32.  The k-th failure report in a row for one unit of work, made with  *)
(* retry=true while retries remain, schedules the retry job                *)
(* min(300, 10 * 2^k) seconds in the future: 20, 40, 80, ...               *)
(***************************************************************************)
C32_BackoffGrowsWithFailures ==
    [][\A p \in Procs :
          (/\ Returns(p, "fail_job")
           /\ loc[p].retry
           /\ hexists(loc[p].db.store, loc[p].arg_job, loc[p].db.now)
           /\ loc[p].streak <= default_max_retries) =>
              LET db == loc[p].db
                  k == loc[p].streak
              IN \E e2 \in delayed'[PriorityOf(db.store[loc[p].arg_job])] :
                    /\ e2.id = db.next_uuid
                    /\ e2.score >= db.now + Min(300, 10 * (2 ^ k))
                    /\ e2.score <= now + Min(300, 10 * (2 ^ k))]_vars

(***************************************************************************)
(* C33.  When fail_job is told to retry a job that has retries left, the   *)
(* original is stored CANCELLED with an error_message that names the job   *)
(* id of the retry job.                                                    *)
(***************************************************************************)
\* The texts made of the reported error alone: they are the same whatever
\* the id of the retry job is.
TextsOfErrorAlone == Errors \cup {"Retrying: " \o e : e \in Errors}
NamesRetryJob(v) == v.kind = "str" /\ v.s \notin TextsOfErrorAlone
C33_AnnotationNamesRetry ==
    [][\A p \in Procs :
          (/\ Returns(p, "fail_job")
           /\ loc[p].retry
           /\ HadRetriesLeft(loc[p].db, loc[p].arg_job)) =>
              (/\ store'[loc[p].arg_job].status = JobStatusValue("CANCELLED")
               /\ NamesRetryJob(store'[loc[p].arg_job].data.error_message))]_vars

(***************************************************************************)
(* C34.  When no call is in flight, user:{u}:jobs holds exactly the ids of *)
(* u's jobs that are not in a terminal state: no id stays in the set once  *)
(* its job is COMPLETED, FAILED or CANCELLED.                              *)
(***************************************************************************)
\* complete_job has run for the job, or a terminal status is stored for it.
TerminalJob(j) ==
    \/ result_exists(results, j, now)
    \/ store[j].status \in {JobStatusValue("COMPLETED"), JobStatusValue("FAILED"),
                            JobStatusValue("CANCELLED")}
LiveJobsOf(u) == {j \in DOMAIN store : store[j].user_id = u /\ ~TerminalJob(j)}
C34_UserSetHoldsLiveJobs ==
    (\A p \in Procs : pc[p] = "idle") =>
        \A u \in Users : smembers(user_jobs, u, now) = LiveJobsOf(u)

(***************************************************************************)
(* C35.  One bad entry does not halt a cleanup cycle: whatever key the     *)
(* job:* scan visits, the sweep goes on with the remaining keys, and the   *)
(* cycle prunes the dead-letter list before the task sleeps again.         *)
(***************************************************************************)
SweepPositions == {"scan", "hget", "del_key", "del_result", "del_invalid"}
C35_SweepSurvivesBadEntry ==
    [][\A i \in CleanupTasks :
          tasks.all[i].pc \in SweepPositions =>
              tasks'.all[i].pc \in SweepPositions \cup {"dlq_read"}]_vars

(***************************************************************************)
(* C36.  A put that finds the memory pressure high and the cache not       *)
(* empty evicts every entry but one most recently used, reaches the        *)
(* insertion only through the monitor's forced cleanup, and leaves exactly *)
(* that entry and the new one in the cache.                                *)
(***************************************************************************)
PutUnderPressure(p) ==
    /\ loc[p].op = "put"
    /\ loc[p].before # <<>>
    /\ FoundPressure(p)
\* The put enters _ensure_cache_space while the pressure is high.
TestsUnderPressure(p) ==
    /\ put_ensure(p)
    /\ ~loc[p].in_loop
    /\ PressureHigh
MostRecentlyUsed(d) == {e \in KeySet(d) : \A k \in KeySet(d) : ValueOf(d, e) >= ValueOf(d, k)}
C36_PressureKeepsNewestAndNew ==
    [][\A p \in Procs :
          /\ TestsUnderPressure(p) => loc'[p].pressure
          /\ (TestsUnderPressure(p) /\ loc[p].before # <<>>) => pc'[p] # "put_set_cache"
          /\ PutUnderPressure(p) =>
              /\ (pc[p] # "put_set_cache" /\ pc'[p] = "put_set_cache") =>
                     pc[p] = "put_force_cleanup"
              /\ put_force_cleanup(p) =>
                     /\ Len(model_cache.cache) = 1
                     /\ KeySet(model_cache.cache) \subseteq MostRecentlyUsed(loc[p].before)
              /\ put_set_usage(p) =>
                     \E e \in MostRecentlyUsed(loc[p].before) :
                         /\ KeySet(model_cache'.cache) = {e, loc[p].model_id}
                         /\ KeySet(model_cache'.usage_times) = {e, loc[p].model_id}]_vars

\* put A, put B, get A, then put C under pressure, which is over when C is
\* inserted: B has gone, A and C stay.
C36_Witness ==
    \E p \in Procs :
        /\ pc[p] = "put_set_usage"
        /\ PutUnderPressure(p)
        /\ ~PressureHigh
        /\ loc[p].model_id = "C"
        /\ KeySet(loc[p].before) = {"A", "B"}
        /\ MostRecentlyUsed(loc[p].before) = {"A"}
        /\ dict_keys(model_cache.cache) = <<"A", "C">>

(***************************************************************************)
(* C37.  The cache never holds more than max_models entries, whatever      *)
(* max_models >= 1 is and whatever the memory pressure, also right after a *)
(* put made under high pressure.                                           *)
(***************************************************************************)
C37_AlwaysWithinMaxModels ==
    Len(model_cache.cache) <= model_cache.max_models

(***************************************************************************)
(* C38.  A put of a key the cache already holds, into a cache of           *)
(* max_models entries, evicts no other entry: the cached keys are the same *)
(* after the put as before it, and the key's usage time is the time of the *)
(* put.                                                                    *)
(***************************************************************************)
PutOfCachedKeyIntoFullCache(p) ==
    /\ loc[p].op = "put"
    /\ Len(loc[p].before) = model_cache.max_models
    /\ dict_has(loc[p].before, loc[p].model_id)
C38_ReplacingEvictsNothing ==
    [][\A p \in Procs :
          (put_set_usage(p) /\ PutOfCachedKeyIntoFullCache(p)) =>
              /\ KeySet(model_cache'.cache) = KeySet(loc[p].before)
              /\ ValueOf(model_cache'.usage_times, loc[p].model_id) = now]_vars

(***************************************************************************)
(* C39.  complete_job or fail_job for an id whose record cannot be read    *)
(* changes nothing: when the call returns, the statistics, the result      *)
(* keys, the job records, the queues, the delayed sets and the dead-letter *)
(* list are as the call found them.                                        *)
(***************************************************************************)
C39_UnreadableReportChangesNothing ==
    [][\A p \in Procs :
          (/\ Returns(p, "complete_job") \/ Returns(p, "fail_job")
           /\ _get_job_data(loc[p].db.store, loc[p].arg_job, loc[p].db.now) = <<>>) =>
              LET db == loc[p].db
              IN /\ stats' = db.stats /\ results' = db.results /\ store' = db.store
                 /\ queue' = db.queue /\ delayed' = db.delayed /\ dlq' = db.dlq]_vars

====
